---- MODULE Spec2Model ----
(***************************************************************************)
(* StatSQLi: time-based blind SQL injection extraction engine.             *)
(*                                                                         *)
(* The model covers one extraction session: a BinarySearchExtractor        *)
(* (statsqli/extractor.py) shared by the main thread and, when the session *)
(* is parallel, by the worker threads of ParallelExtractor                 *)
(* (statsqli/parallel.py).  Characters are represented by their            *)
(* codepoints, strings by sequences of codepoints, Python's None by the    *)
(* value None.  A timing list is represented by its length: the values     *)
(* are wall-clock reals, and the analyzer's verdict on them is an input    *)
(* of the model (see Verdicts).                                            *)
(***************************************************************************)
EXTENDS Integers, Sequences, FiniteSets, TLC

(***************************************************************************)
(* Bounds of the model.                                                    *)
(***************************************************************************)
MaxLen == 3          \* largest max_length argument
MaxChunk == 2        \* largest chunk_size argument
MaxWorkers == 2      \* largest max_workers argument
MaxRounds == 10      \* most iterations of the calibrator's loop that are followed

(***************************************************************************)
(* Program constants.                                                      *)
(***************************************************************************)
LowPrintable == 32       \* extractor.py:143  low = 32
HighPrintable == 126     \* extractor.py:144  high = 126
BaselineSamples == 15    \* extractor.py:63   samples: int = 15
TestSamples == 7         \* extractor.py:82   samples: int = 7
MinSamples == 5          \* stats.py:14       min_samples: int = 5

None == -1               \* Python's None, where a character is expected
Raised == -2             \* a future that holds an exception instead of a character
Terminators == {0, 10, 13}   \* '\x00', '\n', '\r'

(***************************************************************************)
(* Hidden strings held by the target database.  They include the ends of   *)
(* the printable range, a string with a trailing space, and strings with   *)
(* a codepoint outside the printable range (TAB = 9, newline = 10,         *)
(* e-acute = 233).                                                         *)
(***************************************************************************)
HiddenStrings ==
    { << >>, <<97, 32>>, <<9, 98>>, <<233, 10>>, <<126, 105, 33>> }

IsPrintable(s) == \A i \in 1..Len(s) : s[i] >= LowPrintable /\ s[i] <= HighPrintable

Threads == 0..MaxWorkers   \* 0 is the main thread, the others pool workers

VARIABLES
    hidden,          \* the string in the database (environment)
    network,         \* "ideal": every probe succeeds and latency tells the truth;
                     \* "noisy": probes may fail and verdicts are arbitrary;
                     \* "one_miss": as "ideal", but in the search for a
                     \* position one delay may go undetected
    parallel,        \* StatSQLi.parallel
    max_length,      \* argument of the extraction calls
    chunk_size,      \* argument of extract_string_chunks
    max_workers,     \* ParallelExtractor.max_workers
    plan,            \* API calls the session still has to make
    mpc,             \* program position of the main thread
    position,        \* loop variable of extract_string / start_pos of the chunk loop
    result,          \* local `result` of extract_string
    result_chars,    \* local `result_chars` of extract_string_chunks
    results,         \* local `results` of extract_characters_parallel
    positions,       \* argument `positions` of extract_characters_parallel
    submitted,       \* how many of `positions` have been submitted
    queue,           \* executor work queue (positions not yet started)
    finished,        \* finished futures not yet yielded by as_completed
    th,              \* per-thread activation of extract_character_binary
    baseline_cache,  \* BinarySearchExtractor.baseline_cache
    probes,          \* number of HTTP requests issued in the session
    measured,        \* baseline samples stored so far (history)
    first_baseline,  \* the baseline stored first (history)
    started,         \* per position: extractions started in the current chunk (history)
    extracted,       \* per position: value its extraction returned (history)
    returned,        \* results of the API calls made so far
    detector,        \* AdaptiveDelayDetector: its fields and the activation of
                     \* detect_optimal_delay
    payload_template,  \* BinarySearchExtractor.payload_template
    cli,             \* main(): its arguments, position and outcome
    trad,            \* TraditionalExtractor: its fields and the activation of
                     \* its extract_string
    analysis,        \* a direct call of TimingAnalyzer.is_significant_delay or
                     \* of _test_condition with a `samples` argument
    wire             \* the configured URL, the requests sent to it and what
                     \* the lab application made of them

vars == << hidden, network, parallel, max_length, chunk_size, max_workers, plan,
           mpc, position, result, result_chars, results, positions, submitted,
           queue, finished, th, baseline_cache, probes, measured,
           first_baseline, started, extracted, returned, detector,
           payload_template, cli, trad, analysis, wire >>

\* What the extraction calls never assign: their arguments, the target, and
\* the state of the other components.
config == << hidden, network, parallel, max_length, chunk_size, max_workers,
             detector, payload_template, cli, trad, analysis, wire >>
mainSeq == << position, result >>
mainPar == << result_chars, results, positions, submitted, queue, finished,
              started, extracted >>
shared == << baseline_cache, probes, measured, first_baseline >>

EmptyMap == [x \in {} |-> None]
NoBaseline == [by |-> None, n |-> 0]

Idle ==
    [ pc |-> "idle", position |-> 0, low |-> 0, high |-> 0, phase |-> "none",
      cands |-> << >>, pred |-> << >>, issued |-> 0, timings |-> 0, failed |-> 0,
      baseline |-> NoBaseline, call_probes |-> 0, base_probes |-> 0,
      trace |-> << >>, ret |-> None ]

\* Fields of an activation record:
\*   pc           "idle", "test" (entering _test_condition), "store" (about
\*                to assign the baseline it measured), "ret"
\*                (extract_character_binary has returned `ret`), "raised"
\*                (an exception left the call)
\*   position, low, high, cands, pred   locals of extract_character_binary;
\*                pred = <<">=", k>> or <<"=", k>> is the predicate under test
\*   issued, timings   requests issued by, and len(timings) of, the
\*                _measure_request_time of the current oracle call
\*   baseline     local `baseline` of the last _test_condition
\*   failed, call_probes, base_probes, trace   history of the call: failed
\*                requests of the current measurement, requests issued,
\*                baseline requests issued, and per oracle call
\*                <<op, k, answer, requests issued, timings recorded>>

(***************************************************************************)
(* The target: truth of a predicate about the codepoint at a position.     *)
(* UNICODE(SUBSTR(s, p, 1)) is NULL past the end of s, and a comparison    *)
(* with NULL is not true.                                                  *)
(***************************************************************************)
Truth(s, p, pred) ==
    IF p > Len(s) THEN FALSE
    ELSE IF pred[1] = ">=" THEN s[p] >= pred[2]
    ELSE s[p] = pred[2]

(***************************************************************************)
(* TimingAnalyzer.is_significant_delay: refuses short samples, otherwise   *)
(* returns the verdict of Welch's test, here the parameter `verdict`.      *)
(***************************************************************************)
\* (SignificantUnguarded: the slip of leaving the size test out)
SignificantUnguarded(baseline_n, test_n, verdict) == verdict
is_significant_delay(baseline_n, test_n, verdict) ==
    IF baseline_n < MinSamples \/ test_n < MinSamples THEN FALSE ELSE verdict

(***************************************************************************)
(* _measure_request_time: `samples` requests, one after the other; a       *)
(* RequestException (connection refused, timeout, ...) is swallowed and    *)
(* the elapsed time is appended in either case.  `outcomes` is what the    *)
(* transport does to each request.                                         *)
(***************************************************************************)
Outcomes(net) == IF net = "noisy" THEN {"ok", "RequestException"} ELSE {"ok"}

\* except requests.RequestException: pass
Swallowed(outcome) == outcome = "RequestException"

\* timings.append(time.time() - start)
\* (AppendTimingSkipFailed: the slip of appending inside the try block)
AppendTimingSkipFailed(n, outcome) == IF outcome = "ok" THEN n + 1 ELSE n
AppendTiming(n, outcome) == n + 1

NoMeasurement == [issued |-> 0, timings |-> 0, failed |-> 0, raised |-> FALSE]

RECURSIVE MeasureFrom(_, _, _)
MeasureFrom(outcomes, k, m) ==
    IF k > Len(outcomes) THEN m
    ELSE IF outcomes[k] # "ok" /\ ~Swallowed(outcomes[k])
      THEN [m EXCEPT !.issued = @ + 1, !.raised = TRUE]
      ELSE MeasureFrom(outcomes, k + 1,
              [m EXCEPT !.issued = @ + 1,
                        !.timings = AppendTiming(@, outcomes[k]),
                        !.failed = IF outcomes[k] = "ok" THEN @ ELSE @ + 1])

MeasureRequestTime(outcomes) == MeasureFrom(outcomes, 1, NoMeasurement)

\* The activation record after a measurement.
Measured(r, m, done_pc) ==
    [r EXCEPT !.issued = m.issued, !.timings = m.timings, !.failed = m.failed,
              !.call_probes = @ + m.issued,
              !.pc = IF m.raised THEN "raised" ELSE done_pc]

(***************************************************************************)
(* extract_character_binary, the pure parts.                               *)
(***************************************************************************)
\* mid = (low + high) // 2   (MidLinear: the slip of a linear scan)
MidLinear(low, high) == low
Mid(low, high) == (low + high) \div 2

RECURSIVE SortedDesc(_)
SortedDesc(S) ==
    IF S = {} THEN << >>
    ELSE LET m == CHOOSE x \in S : \A y \in S : y <= x
         IN  << m >> \o SortedDesc(S \ {m})

\* candidates_to_test   (CandidatesOffByOne: the slip of `high + 1 <= 127`;
\* CandidatesHighOnly: the slip of leaving the neighbours out)
CandidatesHighOnly(high) ==
    SortedDesc(IF LowPrintable <= high /\ high <= HighPrintable THEN {high} ELSE {})
CandidatesOffByOne(high) ==
    SortedDesc( (IF LowPrintable <= high /\ high <= HighPrintable THEN {high} ELSE {})
                \cup (IF high + 1 <= HighPrintable + 1 THEN {high + 1} ELSE {})
                \cup (IF high - 1 >= LowPrintable THEN {high - 1} ELSE {}) )
CandidatesToTest(high) ==
    SortedDesc( (IF LowPrintable <= high /\ high <= HighPrintable THEN {high} ELSE {})
                \cup (IF high + 1 <= HighPrintable THEN {high + 1} ELSE {})
                \cup (IF high - 1 >= LowPrintable THEN {high - 1} ELSE {}) )

\* The return after a failed verification   (FallbackLoose: the slip of
\* dropping the lower bound; FallbackNone: always None)
FallbackLoose(high) == IF high <= HighPrintable THEN high ELSE None
FallbackNone(high) == None
Fallback(high) ==
    IF LowPrintable <= high /\ high <= HighPrintable THEN high ELSE None

\* result.rstrip('\x00\n\r')   (RStripWhitespace: the slip of also stripping
\* blanks, as a bare rstrip() would)
RStripWhitespace(s) ==
    LET keep == { i \in 1..Len(s) : s[i] \notin (Terminators \cup {32, 9}) }
        last == IF keep = {} THEN 0 ELSE CHOOSE i \in keep : \A j \in keep : j <= i
    IN  SubSeq(s, 1, last)
RStrip(s) ==
    LET keep == { i \in 1..Len(s) : s[i] \notin Terminators }
        last == IF keep = {} THEN 0 ELSE CHOOSE i \in keep : \A j \in keep : j <= i
    IN  SubSeq(s, 1, last)

\* The activation record at the head of the search loop / verification loop,
\* after `low` and `high` have been updated: either the next predicate to
\* test or the returned value.
Continue(r, low, high, phase, cands) ==
    IF phase = "search" /\ low <= high THEN
        [r EXCEPT !.pc = "test", !.low = low, !.high = high, !.phase = "search",
                  !.pred = << ">=", Mid(low, high) >>,
                  !.issued = 0, !.timings = 0, !.failed = 0]
    ELSE LET cs == IF phase = "search" THEN CandidatesToTest(high) ELSE cands
         IN  IF cs # << >> THEN
                 [r EXCEPT !.pc = "test", !.low = low, !.high = high,
                           !.phase = "verify", !.cands = cs,
                           !.pred = << "=", Head(cs) >>,
                           !.issued = 0, !.timings = 0, !.failed = 0]
             ELSE
                 [r EXCEPT !.pc = "ret", !.low = low, !.high = high,
                           !.phase = "verify", !.cands = << >>,
                           !.ret = Fallback(high)]

\* Entry of extract_character_binary(position).
CallExtract(p) ==
    Continue([Idle EXCEPT !.position = p], LowPrintable, HighPrintable,
             "search", << >>)

(***************************************************************************)
(* AdaptiveDelayDetector (statsqli/adaptive.py), the pure parts.           *)
(*                                                                         *)
(* Times and delays are in centiseconds.  A payload template is            *)
(* represented by what the code asks of it: whether it holds the           *)
(* {condition} placeholder and whether it holds a SLEEP(n) call.           *)
(***************************************************************************)
\* ' OR ({condition}) -- -
DefaultTemplate == [condition |-> TRUE, sleep |-> FALSE, other |-> FALSE]
\* 1 OR ({condition}) AND SLEEP(2) -- -
InlineSleep == [condition |-> TRUE, sleep |-> TRUE, other |-> FALSE]
\* ' OR 1=1 -- -          (no replacement field at all)
NoPlaceholder == [condition |-> FALSE, sleep |-> FALSE, other |-> FALSE]
\* ' OR ({cond}) -- -     (a replacement field that is not `condition`)
OtherField == [condition |-> FALSE, sleep |-> FALSE, other |-> TRUE]
Templates == { DefaultTemplate, InlineSleep, NoPlaceholder, OtherField }

\* payload_template.format(condition=...): str.format leaves a template
\* without replacement fields as it is, and raises KeyError for a field it
\* is given no value for.
FormatRaises(template) == template.other

BaselineProbes == 10     \* adaptive.py:32  samples: int = 10
DelayProbes == 5         \* adaptive.py:47  samples: int = 5
DefaultInitialDelay == 100   \* adaptive.py:17  initial_delay: float = 1.0

\* The arguments (min_delay, max_delay, step) of detect_optimal_delay: the
\* defaults (0.5, 5.0, 0.5), shorter ranges, an empty range, a zero step and
\* a negative step.
DelayArgs == { << 50, 500, 50 >>, << 50, 200, 50 >>, << 10, 30, 10 >>,
               << 14, 16, 2 >>, << 50, 0, 50 >>, << 50, 200, 0 >>,
               << 50, 200, -50 >> }

\* The response times of the target, by network profile: a steady link, the
\* link of mean 0.1 s and standard deviation 0.02 s, and a congested link
\* of mean 3.1 s and standard deviation 2 s.
Profiles == { "steady", "jitter", "congested" }

BaselineOf(profile) ==
    IF profile = "steady" THEN << 10, 10, 10, 10, 10, 10, 10, 10, 10, 10 >>
    ELSE IF profile = "jitter" THEN << 13, 13, 7, 7, 10, 10, 10, 10, 10, 10 >>
    ELSE << 610, 610, 10, 10, 310, 310, 310, 310, 310, 310 >>

Spread(profile) ==
    IF profile = "steady" THEN 0 ELSE IF profile = "jitter" THEN 3 ELSE 300

Latency(profile) == IF profile = "congested" THEN 310 ELSE 10

\* Five response times to a payload; the target sleeps `delay` when the
\* payload carries SLEEP(delay).
DelayedTimings(profile, sleeps, delay) ==
    LET l == Latency(profile) + (IF sleeps /\ delay > 0 THEN delay ELSE 0)
        j == Spread(profile)
    IN  << l + j, l - j, l, l, l >>

RECURSIVE SumFrom(_, _)
SumFrom(xs, k) == IF k > Len(xs) THEN 0 ELSE xs[k] + SumFrom(xs, k + 1)
Sum(xs) == SumFrom(xs, 1)
Squares(xs) == [k \in 1..Len(xs) |-> xs[k] * xs[k]]

\* re.sub(r'SLEEP\([0-9.]+\)', f'SLEEP({delay})', template): the payload
\* carries the tested delay only when the template holds a SLEEP call.
CarriesDelay(template) == template.sleep

\* test_mean > min_detectable_delay * 1.5, where
\*   test_mean = mean(test),  min_detectable_delay = mean(b) + 3 * stdev(b),
\*   stdev(b)^2 = (n*sum(b^2) - sum(b)^2) / (n*(n-1)),  n = len(b) = 10.
\* With T = sum(test) (5 values), B = sum(b), Q = sum(b^2) the comparison is
\*   T/5 > 1.5 * (B/10 + 3*stdev)  <=>  4T - 3B > 90 * stdev
\*   <=>  4T - 3B > 0  /\  (4T - 3B)^2 > 90 * (10Q - B^2),
\* which is exact on integer times.
\* (DetectableLoose: the slip of comparing with the baseline mean alone)
DetectableLoose(test, b) == 2 * Sum(test) > Sum(b)
Detectable(test, b) ==
    LET T == Sum(test)
        B == Sum(b)
        Q == Sum(Squares(b))
    IN  /\ 4 * T - 3 * B > 0
        /\ (4 * T - 3 * B) * (4 * T - 3 * B) > 90 * (10 * Q - B * B)

\* min(test_delays, key=lambda x: x[0])[0]
\* (LargestDelay: the slip of max for min)
LargestDelay(test_delays) ==
    LET ds == { x[1] : x \in test_delays } IN CHOOSE d \in ds : \A e \in ds : e <= d
SmallestDelay(test_delays) ==
    LET ds == { x[1] : x \in test_delays } IN CHOOSE d \in ds : \A e \in ds : d <= e

\* No detector: the delay was given, or the session has no calibrator.
NoDetector ==
    [ pc |-> "off", template |-> DefaultTemplate, profile |-> "steady",
      min_delay |-> 0, max_delay |-> 0, step |-> 0, initial_delay |-> 0,
      baseline |-> << >>, current_delay |-> 0, test_delays |-> {},
      tested |-> << >>, probes |-> 0, optimal |-> None ]

\* AdaptiveDelayDetector(url, payload_template).detect_optimal_delay(args)
NewDetector(template, profile, args) ==
    [ NoDetector EXCEPT !.pc = "start", !.template = template,
                        !.profile = profile, !.min_delay = args[1],
                        !.max_delay = args[2], !.step = args[3],
                        !.initial_delay = DefaultInitialDelay ]

(***************************************************************************)
(* main() of statsqli/main.py: the command line, the position of main(),   *)
(* and what the process leaves behind (exit code, printed result).         *)
(***************************************************************************)
DefaultChunkSize == 4    \* parallel.py:74  chunk_size: int = 4

\* The session is not run from the command line.
NoCli ==
    [ pc |-> "off", payload_given |-> FALSE, payload |-> DefaultTemplate,
      delay_given |-> TRUE, profile |-> "steady", interrupted |-> FALSE,
      at_interrupt |-> << >>, printed |-> FALSE, output |-> << >>,
      exit_code |-> None ]

\* Fields of cli:
\*   pc            "off", "main" (entering the try block), "init" (in
\*                 StatSQLi.__init__), "extracting" (in extract_string_custom
\*                 and the prints after it), "exited"
\*   payload_given, payload   args.payload is not None, and its value
\*   delay_given   args.delay is not None
\*   profile       the network between the tool and the target (environment)
\*   interrupted   a KeyboardInterrupt was raised in the main thread
\*   at_interrupt  per thread, the position and the number of oracle calls
\*                 of its extraction when the interrupt was raised (history)
\*   printed, output   the "[+] Result:" line was printed, and its string
\*   exit_code     the status the process exits with

(***************************************************************************)
(* TraditionalExtractor (statsqli/traditional_extractor.py)                *)
(***************************************************************************)
TradBaselineSamples == 5     \* traditional_extractor.py:45  samples: int = 5

\* No traditional extractor has been constructed.
NoTrad ==
    [ pc |-> "off", position |-> 0, ascii_val |-> 0, result |-> << >>,
      baseline_cache |-> None, steps |-> << >>, total_queries |-> 0,
      probes |-> 0, ret |-> << >> ]

\* Fields of trad:
\*   pc            "off", "start" (constructed, extract_string not yet
\*                 called), "char" (in the loop of extract_character_linear),
\*                 "done" (extract_string has returned `ret`)
\*   position, ascii_val, result   locals of extract_string and
\*                 extract_character_linear
\*   baseline_cache   None, or the number of timings cached
\*   steps, total_queries   the fields of these names; a step is
\*                 <<position, ascii_val, result, queries>>
\*   probes        HTTP requests issued since extract_string was called
\*                 (history)

(***************************************************************************)
(* A direct call of the analyzer or of the oracle                          *)
(***************************************************************************)
Alpha == 50              \* stats.py:61  1 - confidence_level, in thousandths
Certain == 1000          \* stats.py:55  the p-value 1.0, in thousandths

\* No direct call is made.
NoAnalysis ==
    [ pc |-> "off", callee |-> "none", samples |-> 0, baseline_n |-> 0,
      test_n |-> 0, failed |-> 0, welch_p |-> Certain, decision |-> FALSE,
      p_value |-> Certain, template |-> << >>, condition |-> << >>,
      delay_seconds |-> 0, payload |-> << >> ]

\* Fields of analysis:
\*   pc            "off", "call" (the call is entered), "test" (the oracle
\*                 has its samples), "ret" (the call has returned)
\*   callee        "is_significant_delay" or "_test_condition"
\*   samples       the argument `samples` of _test_condition
\*   baseline_n, test_n   len(baseline_samples), len(test_samples)
\*   failed        requests of the test sample that failed
\*   welch_p       the p-value Welch's test gives for the timing values, in
\*                 thousandths (environment)
\*   decision, p_value   the pair is_significant_delay returns; the oracle
\*                 returns `decision`
\*   template, condition, delay_seconds   self.payload_template, the
\*                 argument `condition` and self.delay_seconds, as texts
\*   payload       the local `payload` of _test_condition

(***************************************************************************)
(* Payload texts.  A text is a sequence of pieces: plain text, a           *)
(* replacement field {name}, a call SLEEP(n) with a number n (in           *)
(* centiseconds; `text` keeps the spelling of the name), or a call of      *)
(* SLEEP with an argument that is not a number.                            *)
(***************************************************************************)
Txt(str) == [kind |-> "text", text |-> str, arg |-> 0]
Field(name) == [kind |-> "field", text |-> name, arg |-> 0]
SleepCall(name, n) == [kind |-> "sleep", text |-> name, arg |-> n]
SleepOther(str) == [kind |-> "sleep_other", text |-> str, arg |-> 0]

\* ' OR ({condition}) -- -
TextDefault == << Txt("' OR ("), Field("condition"), Txt(") -- -") >>
\* 1 OR ({condition}) AND SLEEP(2) -- -
TextInline ==
    << Txt("1 OR ("), Field("condition"), Txt(") AND "), SleepCall("SLEEP", 200),
       Txt(" -- -") >>
\* 1 OR ({condition}) AND sleep(2) -- -
TextLower ==
    << Txt("1 OR ("), Field("condition"), Txt(") AND "), SleepCall("sleep", 200),
       Txt(" -- -") >>
\* 1 OR ({condition}) AND SLEEP(@d) -- -
TextVariable ==
    << Txt("1 OR ("), Field("condition"), Txt(") AND "), SleepOther("SLEEP(@d)"),
       Txt(" -- -") >>
TextTemplates == { TextDefault, TextInline, TextLower, TextVariable }

\* UNICODE(SUBSTR((SELECT ...), 1, 1)) >= 79, and a predicate that brings
\* its own delay: 1=1 AND SLEEP(3)
TextThreshold == << Txt("UNICODE(SUBSTR((SELECT ...), 1, 1)) >= 79") >>
TextDelaying == << Txt("1=1 AND "), SleepCall("SLEEP", 300) >>
TextConditions == { TextThreshold, TextDelaying }

\* "SLEEP" in text.upper()
ContainsSleep(text) ==
    \E k \in 1..Len(text) : text[k].kind \in {"sleep", "sleep_other"}

\* re.sub(r'SLEEP\([0-9.]+\)', f'SLEEP({delay})', text, flags=re.IGNORECASE)
ReSub(text, delay) ==
    [k \in 1..Len(text) |->
        IF text[k].kind = "sleep" THEN SleepCall("SLEEP", delay) ELSE text[k]]

\* text.format(condition=value)
RECURSIVE FormatFrom(_, _, _)
FormatFrom(text, value, k) ==
    IF k > Len(text) THEN << >>
    ELSE (IF text[k] = Field("condition") THEN value ELSE << text[k] >>)
         \o FormatFrom(text, value, k + 1)
Format(text, value) == FormatFrom(text, value, 1)

\* f"({condition}) AND SLEEP({self.delay_seconds})"
WithSleep(condition, delay) ==
    << Txt("(") >> \o condition \o << Txt(") AND "), SleepCall("SLEEP", delay) >>

\* The payload of BinarySearchExtractor._test_condition
BuildPayload(template, condition, delay) ==
    IF ContainsSleep(template)
      THEN Format(ReSub(template, delay), condition)
    ELSE IF ~ContainsSleep(condition)
      THEN Format(template, WithSleep(condition, delay))
    ELSE Format(template, condition)

(***************************************************************************)
(* URLs and requests.  A URL is its part before the first '?', whether it  *)
(* holds a '?', and the (name, value) pairs of its query.                  *)
(***************************************************************************)
PlainUrl == [ path |-> "http://127.0.0.1:5000/vulnerable", mark |-> FALSE,
              query |-> << >> ]
\* http://127.0.0.1:5000/vulnerable?id=1
DemoUrl ==
    [ PlainUrl EXCEPT !.mark = TRUE, !.query = << << "id", << Txt("1") >> >> >> ]
\* http://127.0.0.1:5000/vulnerable?page=2
PageUrl ==
    [ PlainUrl EXCEPT !.mark = TRUE, !.query = << << "page", << Txt("2") >> >> >> ]
\* http://127.0.0.1:5000/vulnerable?
BareMarkUrl == [ PlainUrl EXCEPT !.mark = TRUE ]
Urls == { PlainUrl, DemoUrl, PageUrl, BareMarkUrl }

\* url = self.base_url.split('?')[0] if '?' in self.base_url else self.base_url
StripQuery(url) ==
    IF url.mark THEN [ url EXCEPT !.mark = FALSE, !.query = << >> ] ELSE url

\* session.get(url, params={'id': payload}): the parameters are appended to
\* the query the URL already has.
Get(url, payload) ==
    [ path |-> url.path, query |-> url.query \o << << "id", payload >> >> ]

\* request.args.get(name, default): the first value of the name
RECURSIVE ArgsGetFrom(_, _, _, _)
ArgsGetFrom(query, name, default, k) ==
    IF k > Len(query) THEN default
    ELSE IF query[k][1] = name THEN query[k][2]
    ELSE ArgsGetFrom(query, name, default, k + 1)
ArgsGet(query, name, default) == ArgsGetFrom(query, name, default, 1)

\* No request has been built.
NoWire ==
    [ pc |-> "off", base_url |-> PlainUrl, template |-> TextDefault,
      delay_given |-> TRUE, sent |-> << >>, served |-> << >> ]

\* The payload of AdaptiveDelayDetector._measure_with_delay
DelayPayload(template, delay) == Format(ReSub(template, delay), << Txt("1=1") >>)

\* The text of a template of Templates.
TextOf(template) ==
    IF template = DefaultTemplate THEN TextDefault
    ELSE IF template = InlineSleep THEN TextInline
    ELSE IF template = NoPlaceholder THEN << Txt("' OR 1=1 -- -") >>
    ELSE << Txt("' OR ("), Field("cond"), Txt(") -- -") >>

\* The payload of TraditionalExtractor._test_condition
TradBuildPayload(template, condition, delay) ==
    IF ContainsSleep(template)
      THEN Format(ReSub(template, delay), condition)
      ELSE Format(template, WithSleep(condition, delay))

(***************************************************************************)
(* Initial states: a fresh session.                                        *)
(***************************************************************************)
\* A parallel session can run both extractions on its one extractor, in
\* either order; a session without workers runs extract_string.  Over the
\* noisy network, where every verdict is arbitrary, the session extracts one
\* character (extract_character_binary at position 1).
Plans == { << "extract_string", "extract_string_chunks" >>,
           << "extract_string_chunks", "extract_string" >> }

Init ==
    /\ hidden \in HiddenStrings
    /\ network \in {"ideal", "noisy"}
    /\ parallel \in BOOLEAN
    /\ max_workers \in 1..MaxWorkers
    /\ chunk_size \in 1..MaxChunk
    /\ max_length \in 0..MaxLen
    /\ IF parallel
         THEN network = "ideal" /\ plan \in Plans
         ELSE /\ max_workers = 1 /\ chunk_size = 1
              /\ IF network = "ideal"
                   THEN plan = << "extract_string" >>
                   ELSE /\ plan = << "extract_character" >>
                        /\ hidden = << >>
                        /\ max_length = 1
    /\ mpc = "idle"
    /\ position = 0
    /\ result = << >>
    /\ result_chars = EmptyMap
    /\ results = EmptyMap
    /\ positions = << >>
    /\ submitted = 0
    /\ queue = << >>
    /\ finished = {}
    /\ th = [t \in Threads |-> Idle]
    /\ baseline_cache = NoBaseline
    /\ probes = 0
    /\ measured = 0
    /\ first_baseline = NoBaseline
    /\ started = EmptyMap
    /\ extracted = EmptyMap
    /\ returned = EmptyMap
    /\ detector = NoDetector
    /\ payload_template = DefaultTemplate
    /\ cli = NoCli
    /\ trad = NoTrad
    /\ analysis = NoAnalysis
    /\ wire = NoWire

(***************************************************************************)
(* _test_condition                                                         *)
(*                                                                         *)
(* A thread touches the shared extractor at two places only: the test of   *)
(* baseline_cache in _establish_baseline and the assignment to it.  The    *)
(* requests and the computation between these two places are local to the *)
(* thread, so each action below runs from one of them up to the next.      *)
(***************************************************************************)
\* An earlier oracle call of the activation answered against the truth.
Missed(r) ==
    \E k \in 1..Len(r.trace) :
        r.trace[k][3] # Truth(hidden, r.position,
                              << r.trace[k][1], r.trace[k][2] >>)

Verdicts(r) ==
    LET truth == payload_template.condition /\ Truth(hidden, r.position, r.pred)
    IN  IF network = "ideal" THEN { truth }
        ELSE IF network = "one_miss"
          THEN IF r.phase = "search" /\ truth /\ ~Missed(r)
                 THEN { TRUE, FALSE } ELSE { truth }
        ELSE BOOLEAN

\* low = mid + 1
RaiseLow(mid) == mid + 1

\* high = mid - 1   (LowerHighKeep: the slip of high = mid)
LowerHighKeep(mid) == mid
LowerHigh(mid) == mid - 1

\* The analyzer's decision is returned to extract_character_binary, which
\* narrows the interval or verifies the next candidate, or returns.
Decided(r, verdict) ==
    LET answer == is_significant_delay(r.baseline.n, r.timings, verdict)
        r1 == [r EXCEPT !.trace = Append(@, << r.pred[1], r.pred[2], answer,
                                             r.issued, r.timings >>)]
        mid == r.pred[2]
    IN  IF r.phase = "search" THEN
            IF answer
              THEN Continue(r1, RaiseLow(mid), r.high, "search", << >>)
              ELSE Continue(r1, r.low, LowerHigh(mid), "search", << >>)
        ELSE
            IF answer
              THEN [r1 EXCEPT !.pc = "ret", !.ret = Head(r.cands)]
              ELSE Continue(r1, r.low, r.high, "verify", Tail(r.cands))

\* The rest of _test_condition once `baseline` is known: the test sample of
\* 7 requests carrying the predicate, and the decision.
TestAndDecide(r, outcomes, verdict) ==
    LET m == MeasureRequestTime(outcomes)
        r1 == Measured(r, m, "test")
    IN  IF m.raised THEN r1 ELSE Decided(r1, verdict)

\* _test_condition is entered and _establish_baseline tests the cache.  With
\* a cached baseline the oracle call runs to its decision; otherwise the
\* thread measures a baseline of 15 requests (condition 1=0), which it has
\* still to store.  Either way the payload is formatted before the first
\* request, and an exception of format leaves the call.
TestCondition(t) ==
    /\ th[t].pc = "test"
    /\ IF FormatRaises(payload_template)
         THEN /\ th' = [th EXCEPT ![t].pc = "raised"]
              /\ UNCHANGED probes
       ELSE IF baseline_cache # NoBaseline
         THEN \E outcomes \in [1..TestSamples -> Outcomes(network)] :
              \E verdict \in Verdicts(th[t]) :
                LET r == TestAndDecide([th[t] EXCEPT !.baseline = baseline_cache],
                                       outcomes, verdict)
                IN  /\ th' = [th EXCEPT ![t] = r]
                    /\ probes' = probes + (r.call_probes - th[t].call_probes)
         ELSE \E outcomes \in [1..BaselineSamples -> Outcomes(network)] :
                LET m == MeasureRequestTime(outcomes)
                IN  /\ th' = [th EXCEPT ![t] =
                                [Measured(@, m, "store")
                                   EXCEPT !.base_probes = @ + m.issued]]
                    /\ probes' = probes + m.issued
    /\ UNCHANGED << config, plan, mpc, mainSeq, mainPar, baseline_cache,
                    measured, first_baseline, returned >>

\* self.baseline_cache = baseline_timings; return baseline_timings; then the
\* oracle call runs to its decision with the baseline just measured.
StoreBaseline(t) ==
    /\ th[t].pc = "store"
    /\ LET b == [by |-> t, n |-> th[t].timings]
       IN  /\ baseline_cache' = b
           /\ first_baseline' = IF measured = 0 THEN b ELSE first_baseline
           /\ \E outcomes \in [1..TestSamples -> Outcomes(network)] :
              \E verdict \in Verdicts(th[t]) :
                LET r == TestAndDecide([th[t] EXCEPT !.baseline = b],
                                       outcomes, verdict)
                IN  /\ th' = [th EXCEPT ![t] = r]
                    /\ probes' = probes + (r.call_probes - th[t].call_probes)
    /\ measured' = measured + 1
    /\ UNCHANGED << config, plan, mpc, mainSeq, mainPar, returned >>

(***************************************************************************)
(* BinarySearchExtractor.extract_character_binary called by the main       *)
(* thread for one position                                                 *)
(***************************************************************************)
ExtractCharacterCall ==
    /\ mpc = "idle"
    /\ plan # << >>
    /\ Head(plan) = "extract_character"
    /\ mpc' = "ec_char"
    /\ position' = 1
    /\ th' = [th EXCEPT ![0] = CallExtract(1)]
    /\ UNCHANGED << config, plan, result, mainPar, shared, returned >>

ExtractCharacterReturn ==
    /\ mpc = "ec_char"
    /\ th[0].pc = "ret"
    /\ returned' = returned @@ ("extract_character" :> th[0].ret)
    /\ plan' = Tail(plan)
    /\ mpc' = "idle"
    /\ UNCHANGED << config, mainSeq, mainPar, th, shared >>

(***************************************************************************)
(* BinarySearchExtractor.extract_string, run by the main thread            *)
(***************************************************************************)
ExtractStringCall ==
    /\ mpc = "idle"
    /\ plan # << >>
    /\ Head(plan) = "extract_string"
    /\ mpc' = "es_loop"
    /\ position' = 0
    /\ result' = << >>
    /\ UNCHANGED << config, plan, mainPar, th, shared, returned >>

\* range(1, max_length + 1) has a value after `position`
\* (HasNextInclusive: the slip of range(1, max_length + 2))
HasNextInclusive(pos, maxlen) == pos <= maxlen
HasNext(pos, maxlen) == pos < maxlen

\* for position in range(1, max_length + 1): the next position is extracted,
\* or the loop is exhausted and the stripped result is returned.
ExtractStringLoop ==
    /\ mpc = "es_loop"
    /\ IF HasNext(position, max_length)
         THEN /\ position' = position + 1
              /\ th' = [th EXCEPT ![0] = CallExtract(position + 1)]
              /\ mpc' = "es_char"
              /\ UNCHANGED << plan, returned, result >>
         ELSE /\ returned' = returned @@ ("extract_string" :> RStrip(result))
              /\ plan' = Tail(plan)
              /\ mpc' = "idle"
              /\ UNCHANGED << position, th, result >>
    /\ UNCHANGED << config, mainPar, shared >>

\* extract_character_binary has returned into the loop body.
ExtractStringChar ==
    /\ mpc = "es_char"
    /\ th[0].pc = "ret"
    /\ LET char == th[0].ret
       IN  IF char = None THEN
               /\ returned' = returned @@ ("extract_string" :> RStrip(result))
               /\ plan' = Tail(plan)
               /\ mpc' = "idle"
               /\ UNCHANGED result
           ELSE IF char \in Terminators THEN
               /\ returned' = returned @@
                     ("extract_string" :> RStrip(Append(result, char)))
               /\ plan' = Tail(plan)
               /\ mpc' = "idle"
               /\ result' = Append(result, char)
           ELSE
               /\ result' = Append(result, char)
               /\ mpc' = "es_loop"
               /\ UNCHANGED << plan, returned >>
    /\ UNCHANGED << config, position, mainPar, th, shared >>

(***************************************************************************)
(* ParallelExtractor                                                       *)
(***************************************************************************)
Range(f) == { f[x] : x \in DOMAIN f }
Min(a, b) == IF a <= b THEN a ELSE b

\* end_pos = min(start_pos + chunk_size - 1, max_length)
\* (EndPosUnclamped: the slip of omitting the min)
EndPosUnclamped(start_pos, size, maxlen) == start_pos + size - 1
EndPos(start_pos, size, maxlen) == Min(start_pos + size - 1, maxlen)

\* list(range(start_pos, end_pos + 1))
RangeList(a, b) == [k \in 1..(b - a + 1) |-> a + k - 1]

\* The threads of ThreadPoolExecutor(max_workers=self.max_workers).
\* (PoolUnbounded: the slip of not passing max_workers)
PoolUnbounded(w) == 1..MaxWorkers
Pool(w) == 1..w

\* result_chars.update(chunk_results)
Update(old, new) == new @@ old

\* results[position] = char, with the pair returned by extract_one
StoreResult(res, future) == (future[1] :> future[2]) @@ res

\* The reconstruction loop of extract_string_chunks over the remaining keys,
\* in ascending order.
RECURSIVE ReconstructFrom(_, _, _)
ReconstructFrom(rc, keys, acc) ==
    IF keys = {} THEN acc
    ELSE LET pos == CHOOSE k \in keys : \A j \in keys : k <= j
             char == rc[pos]
         IN  IF char = None THEN acc
             ELSE IF char \in Terminators THEN Append(acc, char)
             ELSE ReconstructFrom(rc, keys \ {pos}, Append(acc, char))

\* (SkipNoneFrom: the slip of `continue` instead of `break` at a None)
RECURSIVE SkipNoneFrom(_, _, _)
SkipNoneFrom(rc, keys, acc) ==
    IF keys = {} THEN acc
    ELSE LET pos == CHOOSE k \in keys : \A j \in keys : k <= j
             char == rc[pos]
         IN  IF char = None THEN SkipNoneFrom(rc, keys \ {pos}, acc)
             ELSE IF char \in Terminators THEN Append(acc, char)
             ELSE SkipNoneFrom(rc, keys \ {pos}, Append(acc, char))

ReconstructSkippingNone(rc) == SkipNoneFrom(rc, DOMAIN rc, << >>)
Reconstruct(rc) == ReconstructFrom(rc, DOMAIN rc, << >>)

ExtractStringChunksCall ==
    /\ mpc = "idle"
    /\ plan # << >>
    /\ Head(plan) = "extract_string_chunks"
    /\ mpc' = "ch_loop"
    /\ position' = 1
    /\ result_chars' = EmptyMap
    /\ extracted' = EmptyMap
    /\ UNCHANGED << config, plan, result, results, positions, submitted, queue,
                    finished, started, th, shared, returned >>

\* for start_pos in range(1, max_length + 1, chunk_size): the next window is
\* handed to extract_characters_parallel, which creates its executor; or the
\* loop is exhausted.
ChunkLoop ==
    /\ mpc = "ch_loop"
    /\ IF position <= max_length
         THEN /\ positions' = RangeList(position, EndPos(position, chunk_size, max_length))
              /\ results' = EmptyMap
              /\ submitted' = 0
              /\ queue' = << >>
              /\ finished' = {}
              /\ started' = [p \in Range(positions') |-> 0]
              /\ mpc' = "submit"
         ELSE /\ mpc' = "rebuild"
              /\ UNCHANGED << positions, results, submitted, queue, finished, started >>
    /\ UNCHANGED << config, plan, mainSeq, result_chars, extracted, th, shared,
                    returned >>

\* executor.submit(extract_one, pos), one position of the comprehension
Submit ==
    /\ mpc = "submit"
    /\ submitted < Len(positions)
    /\ queue' = Append(queue, positions[submitted + 1])
    /\ submitted' = submitted + 1
    /\ mpc' = IF submitted + 1 = Len(positions) THEN "collect" ELSE "submit"
    /\ UNCHANGED << config, plan, mainSeq, result_chars, results, positions,
                    finished, started, extracted, th, shared, returned >>

\* A pool thread takes the oldest queued task and runs extract_one on it.
\* Pool threads are interchangeable: the idle one of least index takes it.
WorkerStart(t) ==
    /\ t \in Pool(max_workers)
    /\ th[t].pc = "idle"
    /\ \A u \in Pool(max_workers) : u < t => th[u].pc # "idle"
    /\ queue # << >>
    /\ th' = [th EXCEPT ![t] = CallExtract(Head(queue))]
    /\ queue' = Tail(queue)
    /\ started' = [started EXCEPT ![Head(queue)] = @ + 1]
    /\ UNCHANGED << config, plan, mpc, mainSeq, result_chars, results, positions,
                    submitted, finished, extracted, shared, returned >>

\* extract_one returns (position, char), or an exception leaves it: the
\* future is finished, with the pair or with the exception.
WorkerFinish(t) ==
    /\ t # 0
    /\ th[t].pc \in {"ret", "raised"}
    /\ LET outcome == IF th[t].pc = "ret" THEN th[t].ret ELSE Raised
       IN  /\ finished' = finished \cup { << th[t].position, outcome >> }
           /\ extracted' = (th[t].position :> outcome) @@ extracted
    /\ th' = [th EXCEPT ![t] = Idle]
    /\ UNCHANGED << config, plan, mpc, mainSeq, result_chars, results, positions,
                    submitted, queue, started, shared, returned >>

\* future.result() re-raises the exception a future holds.
ResultRaises(future) == future[2] = Raised

\* for future in as_completed(futures): one finished future is yielded and
\* stored; after the last one the executor is shut down.  When
\* future.result() raises, the exception leaves the loop and the `with`
\* block, whose exit waits for the executor (shutdown(wait=True)).
Collect ==
    /\ mpc = "collect"
    /\ \E future \in finished :
         /\ finished' = finished \ {future}
         /\ IF ResultRaises(future)
              THEN /\ mpc' = "shutdown"
                   /\ UNCHANGED results
              ELSE /\ results' = StoreResult(results, future)
                   /\ mpc' = IF Cardinality(DOMAIN results') = Len(positions)
                               THEN "joined" ELSE "collect"
    /\ UNCHANGED << config, plan, mainSeq, result_chars, positions, submitted,
                    queue, started, extracted, th, shared, returned >>

\* if None in chunk_results.values(): break
\* (NeverStops: the slip of leaving the test out)
NeverStops(chunk_results) == FALSE
ShouldStop(chunk_results) == None \in Range(chunk_results)

\* extract_characters_parallel returns `results` into the chunk loop.
ChunkReturn ==
    /\ mpc = "joined"
    /\ result_chars' = Update(result_chars, results)
    /\ IF ShouldStop(results)
         THEN mpc' = "rebuild" /\ UNCHANGED position
         ELSE mpc' = "ch_loop" /\ position' = position + chunk_size
    /\ UNCHANGED << config, plan, result, results, positions, submitted, queue,
                    finished, started, extracted, th, shared, returned >>

\* The reconstruction loop and the return of extract_string_chunks.
Rebuild ==
    /\ mpc = "rebuild"
    /\ returned' = returned @@
          ("extract_string_chunks" :> RStrip(Reconstruct(result_chars)))
    /\ plan' = Tail(plan)
    /\ mpc' = "idle"
    /\ UNCHANGED << config, mainSeq, mainPar, th, shared >>

Next ==
    \/ ExtractStringChunksCall
    \/ ChunkLoop
    \/ Submit
    \/ \E t \in Threads : WorkerStart(t)
    \/ \E t \in Threads : WorkerFinish(t)
    \/ Collect
    \/ ChunkReturn
    \/ Rebuild
    \/ \E t \in Threads : TestCondition(t)
    \/ \E t \in Threads : StoreBaseline(t)
    \/ ExtractCharacterCall
    \/ ExtractCharacterReturn
    \/ ExtractStringCall
    \/ ExtractStringLoop
    \/ ExtractStringChar

Spec == Init /\ [][Next]_vars

(***************************************************************************)
(* detect_optimal_delay                                                    *)
(***************************************************************************)
session == << hidden, network, parallel, max_length, chunk_size, max_workers,
              plan, mpc, position, result, result_chars, results, positions,
              submitted, queue, finished, th, baseline_cache, probes, measured,
              first_baseline, started, extracted, returned, payload_template,
              cli, trad, analysis, wire >>

\* No call of the extractor or the scheduler has been made.
NoActivity ==
    /\ plan = << >>
    /\ mpc = "idle"
    /\ position = 0
    /\ result = << >>
    /\ result_chars = EmptyMap
    /\ results = EmptyMap
    /\ positions = << >>
    /\ submitted = 0
    /\ queue = << >>
    /\ finished = {}
    /\ th = [t \in Threads |-> Idle]
    /\ baseline_cache = NoBaseline
    /\ probes = 0
    /\ measured = 0
    /\ first_baseline = NoBaseline
    /\ started = EmptyMap
    /\ extracted = EmptyMap
    /\ returned = EmptyMap

\* No extraction session: the extractor has not been constructed.
NoSession ==
    /\ hidden = << >>
    /\ network = "ideal"
    /\ parallel = FALSE
    /\ max_length = 0
    /\ chunk_size = 1
    /\ max_workers = 1
    /\ NoActivity
    /\ payload_template = DefaultTemplate
    /\ cli = NoCli
    /\ trad = NoTrad

\* baseline = self._measure_baseline_no_delay(): 10 requests carrying 1=0;
\* then current_delay = min_delay.
MeasureBaselineNoDelay ==
    /\ detector.pc = "start"
    /\ IF FormatRaises(detector.template)
         THEN detector' = [detector EXCEPT !.pc = "raised"]
         ELSE detector' = [detector EXCEPT
                      !.baseline = BaselineOf(detector.profile),
                      !.probes = @ + BaselineProbes,
                      !.test_delays = {},
                      !.current_delay = detector.min_delay,
                      !.pc = "loop"]
    /\ UNCHANGED session

\* One iteration of `while current_delay <= max_delay`, or the end of the
\* loop, the choice of `optimal` and the return.
DelayLoop ==
    /\ detector.pc = "loop"
    /\ IF detector.current_delay <= detector.max_delay
         THEN /\ Len(detector.tested) < MaxRounds
              /\ LET d == detector.current_delay
                     test_timings == DelayedTimings(detector.profile,
                                         CarriesDelay(detector.template), d)
                     payload == DelayPayload(TextOf(detector.template), d)
                 IN  detector' = [detector EXCEPT
                        !.probes = @ + DelayProbes,
                        !.tested = Append(@, << d, test_timings, payload >>),
                        !.test_delays =
                            IF Detectable(test_timings, detector.baseline)
                              THEN @ \cup { << d, test_timings >> } ELSE @,
                        !.current_delay = d + detector.step]
         ELSE detector' = [detector EXCEPT
                 !.optimal = IF detector.test_delays = {}
                               THEN detector.initial_delay
                               ELSE SmallestDelay(detector.test_delays),
                 !.pc = "done"]
    /\ UNCHANGED session

InitDelay ==
    /\ NoSession
    /\ analysis = NoAnalysis
    /\ wire = NoWire
    /\ \E template \in Templates, profile \in Profiles, args \in DelayArgs :
          detector = NewDetector(template, profile, args)

NextDelay ==
    \/ MeasureBaselineNoDelay
    \/ DelayLoop

SpecDelay == InitDelay /\ [][NextDelay]_vars

(***************************************************************************)
(* main(): the tool run from the command line                              *)
(***************************************************************************)
target == << hidden, network, parallel, max_length, chunk_size, max_workers >>

\* The strings the command-line runs extract.
CliHidden == { << 97, 32 >>, << 126, 105, 33 >> }

\* The command lines that are run: --parallel, --workers, --max-length.
CommandLines ==
    { [parallel |-> FALSE, workers |-> 1, max_length |-> 1],
      [parallel |-> FALSE, workers |-> 1, max_length |-> 3],
      [parallel |-> TRUE, workers |-> 1, max_length |-> 2],
      [parallel |-> TRUE, workers |-> 2, max_length |-> 2] }

\* detector.detect_optimal_delay(): the defaults of its parameters
DefaultDelayArgs == << 50, 500, 50 >>

\* An exception is on its way through the frames of the main thread: it
\* left the library call ("unwound"), is held by the exit of the executor's
\* `with` block ("shutdown"), or was raised by the call the main thread
\* itself was making.
ExceptionInFlight ==
    \/ mpc \in {"shutdown", "unwound"}
    \/ th[0].pc = "raised"
    \/ detector.pc = "raised"

\* sys.exit(...) of the handler that catches the exception
ExitCode(exc) == IF exc = "KeyboardInterrupt" THEN 1 ELSE 1

\* tool = StatSQLi(url, payload, delay, parallel, workers), up to the call
\* of the detector when no delay is given.
CliConstruct ==
    /\ cli.pc = "main"
    /\ cli' = [cli EXCEPT !.pc = "init"]
    /\ detector' =
         IF cli.delay_given THEN detector
         ELSE NewDetector(IF cli.payload_given THEN cli.payload
                                               ELSE DefaultTemplate,
                          cli.profile, DefaultDelayArgs)
    /\ UNCHANGED << target, trad, analysis, wire,
                     plan, mpc, mainSeq, mainPar, th, shared,
                    returned, payload_template >>

\* The rest of StatSQLi.__init__ (the extractor is constructed with the
\* template and the delay) and the call of extract_string_custom, which
\* dispatches on self.parallel.
CliExtract ==
    /\ cli.pc = "init"
    /\ detector.pc \in {"off", "done"}
    /\ mpc = "idle"
    /\ cli' = [cli EXCEPT !.pc = "extracting"]
    /\ payload_template' = IF cli.payload_given THEN cli.payload
                                                ELSE DefaultTemplate
    /\ plan' = IF parallel THEN << "extract_string_chunks" >>
                           ELSE << "extract_string" >>
    /\ UNCHANGED << target, trad, analysis, wire,
                     mpc, mainSeq, mainPar, th, shared, returned,
                    detector >>

\* extract_string_custom has returned: the result is printed and main()
\* returns, so the process exits with status 0.
CliDone ==
    /\ cli.pc = "extracting"
    /\ mpc = "idle"
    /\ plan = << >>
    /\ cli' = [cli EXCEPT !.pc = "exited", !.printed = TRUE,
                          !.output = returned[IF parallel
                                                THEN "extract_string_chunks"
                                                ELSE "extract_string"],
                          !.exit_code = 0]
    /\ UNCHANGED << target, trad, analysis, wire,
                     plan, mpc, mainSeq, mainPar, th, shared,
                    returned, detector, payload_template >>

\* The user interrupts: KeyboardInterrupt is raised in the main thread,
\* wherever it is.  The calls the main thread was making are abandoned; an
\* interrupt inside the executor's `with` block is held by its exit, which
\* waits for the executor.
Interrupt ==
    /\ cli.pc \in {"init", "extracting"}
    /\ ~ExceptionInFlight
    /\ cli' = [cli EXCEPT !.interrupted = TRUE,
                          !.at_interrupt =
                              [t \in Threads |->
                                 << th[t].position, Len(th[t].trace) >>]]
    /\ detector' = IF detector.pc \in {"start", "loop"}
                     THEN [detector EXCEPT !.pc = "aborted"] ELSE detector
    /\ th' = [th EXCEPT ![0].pc = IF @ \in {"test", "store"} THEN "aborted"
                                                              ELSE @]
    /\ mpc' = IF mpc \in {"submit", "collect"} THEN "shutdown" ELSE "unwound"
    /\ UNCHANGED << target, trad, analysis, wire,
                     plan, mainSeq, mainPar, shared, returned,
                    payload_template >>

\* The exception reaches the handlers of main(): once the executor's exit,
\* if the exception is held there, has seen every task run.
CliExcept ==
    /\ cli.pc \in {"init", "extracting"}
    /\ ExceptionInFlight
    /\ mpc = "shutdown" =>
         (queue = << >> /\ \A t \in Pool(max_workers) : th[t].pc = "idle")
    /\ cli' = [cli EXCEPT !.pc = "exited",
                          !.exit_code = ExitCode(IF cli.interrupted
                                                   THEN "KeyboardInterrupt"
                                                   ELSE "Exception")]
    /\ UNCHANGED << target, trad, analysis, wire,
                     plan, mpc, mainSeq, mainPar, th, shared,
                    returned, detector, payload_template >>

InitCli ==
    /\ hidden \in CliHidden
    /\ network = "ideal"
    /\ \E args \in CommandLines :
          /\ parallel = args.parallel
          /\ max_workers = args.workers
          /\ max_length = args.max_length
    /\ parallel => hidden = << 97, 32 >>
    /\ chunk_size = DefaultChunkSize
    /\ \E given \in BOOLEAN, template \in Templates, delay \in BOOLEAN,
          profile \in {"jitter", "congested"} :
          /\ ~given => template = DefaultTemplate
          /\ delay => profile = "jitter"
          /\ parallel => delay
          /\ cli = [NoCli EXCEPT !.pc = "main", !.payload_given = given,
                                 !.payload = template, !.delay_given = delay,
                                 !.profile = profile]
    /\ NoActivity
    /\ detector = NoDetector
    /\ payload_template = DefaultTemplate
    /\ trad = NoTrad
    /\ analysis = NoAnalysis
    /\ wire = NoWire

NextCli ==
    \/ CliConstruct
    \/ MeasureBaselineNoDelay
    \/ DelayLoop
    \/ CliExtract
    \/ ExtractStringCall
    \/ ExtractStringLoop
    \/ ExtractStringChar
    \/ ExtractStringChunksCall
    \/ ChunkLoop
    \/ Submit
    \/ \E t \in Threads : WorkerStart(t)
    \/ \E t \in Threads : WorkerFinish(t)
    \/ Collect
    \/ ChunkReturn
    \/ Rebuild
    \/ \E t \in Threads : TestCondition(t)
    \/ \E t \in Threads : StoreBaseline(t)
    \/ CliDone
    \/ Interrupt
    \/ CliExcept

SpecCli == InitCli /\ [][NextCli]_vars

(***************************************************************************)
(* TraditionalExtractor.extract_string: the linear search                  *)
(***************************************************************************)
others == << plan, mpc, position, result, result_chars, results, positions,
             submitted, queue, finished, th, baseline_cache, probes, measured,
             first_baseline, started, extracted, returned, detector,
             payload_template, cli, analysis, wire >>

\* The first value of range(start, stop)
\* (FirstOfRangeZero: the slip of range(127))
FirstOfRangeZero(start, stop) == 0
FirstOfRange(start, stop) == start

\* The last value of range(start, stop)
\* (LastOfRangeShort: the slip of range(32, 126))
LastOfRangeShort(start, stop) == stop - 2
LastOfRange(start, stop) == stop - 1

\* extract_string is called: result = "", self.steps = [],
\* self.total_queries = 0, and the loop over the positions is entered.
TradExtractString ==
    /\ trad.pc = "start"
    /\ trad' = IF 1 <= max_length
                THEN [trad EXCEPT !.pc = "char", !.position = 1,
                                  !.ascii_val =
                                      FirstOfRange(LowPrintable, HighPrintable + 1),
                                  !.result = << >>,
                                  !.steps = << >>, !.total_queries = 0]
                ELSE [trad EXCEPT !.pc = "done", !.result = << >>,
                                  !.steps = << >>, !.total_queries = 0,
                                  !.ret = RStrip(<< >>)]
    /\ UNCHANGED << target, others >>

\* One iteration of `for ascii_val in range(32, 127)`: _test_condition
\* (the baseline of 5 requests when none is cached, then a single request
\* carrying the equality predicate, compared with the threshold), the
\* count and the step record, and what follows from the answer in
\* extract_character_linear and in the loop of extract_string.
TradTestCondition ==
    /\ trad.pc = "char"
    /\ LET fresh == trad.baseline_cache = None
           issued == (IF fresh THEN TradBaselineSamples ELSE 0) + 1
           answer == Truth(hidden, trad.position, << "=", trad.ascii_val >>)
           counted == [trad EXCEPT
                         !.baseline_cache = TradBaselineSamples,
                         !.probes = @ + issued,
                         !.total_queries = @ + 1,
                         !.steps = Append(@, << trad.position, trad.ascii_val,
                                                answer, trad.total_queries + 1 >>)]
           found == Append(trad.result, trad.ascii_val)
       IN  trad' =
             IF answer THEN
                 IF trad.ascii_val \in Terminators \/ trad.position >= max_length
                   THEN [counted EXCEPT !.result = found, !.pc = "done",
                                        !.ret = RStrip(found)]
                   ELSE [counted EXCEPT !.result = found,
                                        !.position = @ + 1,
                                        !.ascii_val =
                                            FirstOfRange(LowPrintable,
                                                         HighPrintable + 1)]
             ELSE IF trad.ascii_val = LastOfRange(LowPrintable, HighPrintable + 1)
                   THEN [counted EXCEPT !.pc = "done", !.ret = RStrip(trad.result)]
                   ELSE [counted EXCEPT !.ascii_val = @ + 1]
    /\ UNCHANGED << target, others >>

InitTrad ==
    /\ hidden \in HiddenStrings
    /\ network = "ideal"
    /\ parallel = FALSE
    /\ max_length \in 0..MaxLen
    /\ chunk_size = 1
    /\ max_workers = 1
    /\ NoActivity
    /\ detector = NoDetector
    /\ payload_template = DefaultTemplate
    /\ cli = NoCli
    /\ trad = [NoTrad EXCEPT !.pc = "start"]
    /\ analysis = NoAnalysis
    /\ wire = NoWire

NextTrad ==
    \/ TradExtractString
    \/ TradTestCondition

SpecTrad == InitTrad /\ [][NextTrad]_vars

(***************************************************************************)
(* The comparison of the two extractors (benchmarks/compare_tools.py):     *)
(* the binary-search extractor extracts the string, then a traditional     *)
(* extractor is constructed for the same target and extracts it again.     *)
(***************************************************************************)
\* The strings compared: those of HiddenStrings, strings of low codepoints
\* ("!!", "()") and strings of higher ones ("ab", ")~").
CompareHidden ==
    HiddenStrings \cup { << 33, 33 >>, << 40, 41 >>, << 97, 98 >>, << 41, 126 >> }

\* extractor = TraditionalExtractor(target_url, test_payload, 2.0, analyzer),
\* once the binary-search run has returned.
TradConstruct ==
    /\ trad.pc = "off"
    /\ mpc = "idle"
    /\ plan = << >>
    /\ trad' = [NoTrad EXCEPT !.pc = "start"]
    /\ UNCHANGED << target, others >>

InitCompare ==
    /\ hidden \in CompareHidden
    /\ network = "ideal"
    /\ parallel = FALSE
    /\ max_length \in 0..MaxLen
    /\ chunk_size = 1
    /\ max_workers = 1
    /\ plan = << "extract_string" >>
    /\ mpc = "idle"
    /\ position = 0
    /\ result = << >>
    /\ result_chars = EmptyMap
    /\ results = EmptyMap
    /\ positions = << >>
    /\ submitted = 0
    /\ queue = << >>
    /\ finished = {}
    /\ th = [t \in Threads |-> Idle]
    /\ baseline_cache = NoBaseline
    /\ probes = 0
    /\ measured = 0
    /\ first_baseline = NoBaseline
    /\ started = EmptyMap
    /\ extracted = EmptyMap
    /\ returned = EmptyMap
    /\ detector = NoDetector
    /\ payload_template = DefaultTemplate
    /\ cli = NoCli
    /\ trad = NoTrad
    /\ analysis = NoAnalysis
    /\ wire = NoWire

NextCompare ==
    \/ ExtractStringCall
    \/ ExtractStringLoop
    \/ ExtractStringChar
    \/ \E t \in Threads : TestCondition(t)
    \/ \E t \in Threads : StoreBaseline(t)
    \/ TradConstruct
    \/ TradExtractString
    \/ TradTestCondition

SpecCompare == InitCompare /\ [][NextCompare]_vars

(***************************************************************************)
(* TimingAnalyzer.is_significant_delay called with samples of any size,    *)
(* and _test_condition called with a `samples` argument (stats.py,         *)
(* extractor.py:82-124)                                                    *)
(***************************************************************************)
beside == << hidden, network, parallel, max_length, chunk_size, max_workers,
             plan, mpc, position, result, result_chars, results, positions,
             submitted, queue, finished, th, baseline_cache, probes, measured,
             first_baseline, started, extracted, returned, detector,
             payload_template, cli, trad >>

\* Sizes of the samples handed to the analyzer, and `samples` arguments.
SampleSizes == { 0, 1, 4, 5, 6, 7, 15 }
SampleArgs == 0..TestSamples

\* Configured delays: 0.5 s and 2.0 s (the default of delay_seconds).
DelaySeconds == { 50, 200 }

\* p-values of Welch's test: on both sides of 1 - confidence_level.
WelchValues == { 0, Alpha - 1, Alpha, Certain }

\* The second component of the pair is_significant_delay returns.
PValue(baseline_n, test_n, welch_p) ==
    IF baseline_n < MinSamples \/ test_n < MinSamples THEN Certain ELSE welch_p

\* analyzer.is_significant_delay(baseline_samples, test_samples)
AnalyzerCall ==
    /\ analysis.pc = "call"
    /\ analysis.callee = "is_significant_delay"
    /\ analysis' = [analysis EXCEPT
          !.decision = is_significant_delay(analysis.baseline_n, analysis.test_n,
                                            analysis.welch_p < Alpha),
          !.p_value = PValue(analysis.baseline_n, analysis.test_n,
                             analysis.welch_p),
          !.pc = "ret"]
    /\ UNCHANGED << beside, wire >>

\* _test_condition(condition, samples), up to the call of the analyzer: the
\* baseline of 15 timings and the test sample of `samples` requests, any
\* of which may fail.
OracleMeasure ==
    /\ analysis.pc = "call"
    /\ analysis.callee = "_test_condition"
    /\ \E outcomes \in [1..analysis.samples -> Outcomes("noisy")] :
          LET m == MeasureRequestTime(outcomes)
          IN  analysis' = [analysis EXCEPT
                  !.baseline_n = BaselineSamples,
                  !.payload = BuildPayload(analysis.template, analysis.condition,
                                           analysis.delay_seconds),
                  !.test_n = m.timings,
                  !.failed = m.failed,
                  !.pc = "test"]
    /\ UNCHANGED << beside, wire >>

\* TraditionalExtractor._test_condition(condition): the baseline of 5
\* timings, the payload, a single request, and the comparison of its
\* elapsed time with the threshold.
TradOracle ==
    /\ analysis.pc = "call"
    /\ analysis.callee = "traditional._test_condition"
    /\ \E slow \in BOOLEAN :
          analysis' = [analysis EXCEPT
              !.baseline_n = TradBaselineSamples,
              !.payload = TradBuildPayload(analysis.template, analysis.condition,
                                           analysis.delay_seconds),
              !.test_n = 1,
              !.decision = slow,
              !.pc = "ret"]
    /\ UNCHANGED << beside, wire >>

\* is_significant, p_value = self.analyzer.is_significant_delay(baseline,
\* test_timings); return is_significant
OracleDecide ==
    /\ analysis.pc = "test"
    /\ analysis' = [analysis EXCEPT
          !.decision = is_significant_delay(analysis.baseline_n, analysis.test_n,
                                            analysis.welch_p < Alpha),
          !.p_value = PValue(analysis.baseline_n, analysis.test_n,
                             analysis.welch_p),
          !.pc = "ret"]
    /\ UNCHANGED << beside, wire >>

InitAnalyzer ==
    /\ NoSession
    /\ wire = NoWire
    /\ detector = NoDetector
    /\ \/ \E bn \in SampleSizes, tn \in SampleSizes, p \in WelchValues :
             analysis = [NoAnalysis EXCEPT !.pc = "call",
                                           !.callee = "is_significant_delay",
                                           !.baseline_n = bn, !.test_n = tn,
                                           !.welch_p = p]
       \/ \E k \in SampleArgs, p \in WelchValues, template \in TextTemplates,
             condition \in TextConditions, delay \in DelaySeconds,
             callee \in {"_test_condition", "traditional._test_condition"} :
             /\ callee = "traditional._test_condition" =>
                   (k = 1 /\ p = Certain)
             /\ (callee = "_test_condition" /\ k # TestSamples) =>
                   (template = TextDefault /\ condition = TextThreshold)
             /\ analysis = [NoAnalysis EXCEPT !.pc = "call", !.callee = callee,
                                              !.samples = k, !.welch_p = p,
                                              !.template = template,
                                              !.condition = condition,
                                              !.delay_seconds = delay]

NextAnalyzer ==
    \/ AnalyzerCall
    \/ OracleMeasure
    \/ OracleDecide
    \/ TradOracle

SpecAnalyzer == InitAnalyzer /\ [][NextAnalyzer]_vars

(***************************************************************************)
(* extract_character_binary for one position, over each kind of network    *)
(***************************************************************************)
\* What position 1 holds: nothing, the ends of the printable range and
\* their neighbours, the first midpoint, a letter, and codepoints outside
\* the printable range.
CharHidden ==
    { << >>, << 32 >>, << 33 >>, << 79 >>, << 97 >>, << 125 >>, << 126 >>,
      << 9 >>, << 233 >> }

InitChar ==
    /\ hidden \in CharHidden
    /\ network \in {"ideal", "one_miss", "noisy"}
    /\ network = "noisy" => hidden = << >>
    /\ parallel = FALSE
    /\ max_length = 1
    /\ chunk_size = 1
    /\ max_workers = 1
    /\ plan = << "extract_character" >>
    /\ mpc = "idle"
    /\ position = 0
    /\ result = << >>
    /\ result_chars = EmptyMap
    /\ results = EmptyMap
    /\ positions = << >>
    /\ submitted = 0
    /\ queue = << >>
    /\ finished = {}
    /\ th = [t \in Threads |-> Idle]
    /\ baseline_cache = NoBaseline
    /\ probes = 0
    /\ measured = 0
    /\ first_baseline = NoBaseline
    /\ started = EmptyMap
    /\ extracted = EmptyMap
    /\ returned = EmptyMap
    /\ detector = NoDetector
    /\ payload_template = DefaultTemplate
    /\ cli = NoCli
    /\ trad = NoTrad
    /\ analysis = NoAnalysis
    /\ wire = NoWire

NextChar ==
    \/ ExtractCharacterCall
    \/ \E t \in Threads : TestCondition(t)
    \/ \E t \in Threads : StoreBaseline(t)
    \/ ExtractCharacterReturn

SpecChar == InitChar /\ [][NextChar]_vars

(***************************************************************************)
(* The requests of a session: StatSQLi(url, payload_template, delay), or   *)
(* TraditionalExtractor(url, payload_template, delay), built and sent.     *)
(***************************************************************************)
MaxSent == 3

\* What a component sent: who, the payload, and the request as it left.
Send(by, url, payload) ==
    /\ Len(wire.sent) < MaxSent
    /\ wire' = [wire EXCEPT !.sent = Append(@,
                    [ by |-> by, payload |-> payload,
                      request |-> Get(url, payload) ])]
    /\ UNCHANGED << beside, analysis >>

\* AdaptiveDelayDetector._measure_baseline_no_delay: runs when delay is None
DetectorBaselineSend ==
    /\ wire.pc = "statsqli" /\ ~wire.delay_given
    /\ Send("calibrator", wire.base_url,
            Format(wire.template, << Txt("1=0") >>))

\* AdaptiveDelayDetector._measure_with_delay
DetectorDelaySend ==
    /\ wire.pc = "statsqli" /\ ~wire.delay_given
    /\ \E delay \in DelaySeconds :
          Send("calibrator", wire.base_url, DelayPayload(wire.template, delay))

\* BinarySearchExtractor._establish_baseline -> _measure_request_time
ExtractorBaselineSend ==
    /\ wire.pc = "statsqli"
    /\ Send("baseline", StripQuery(wire.base_url),
            Format(wire.template, << Txt("1=0") >>))

\* BinarySearchExtractor._test_condition -> _measure_request_time
ExtractorOracleSend ==
    /\ wire.pc = "statsqli"
    /\ \E delay \in DelaySeconds :
          Send("oracle", StripQuery(wire.base_url),
               BuildPayload(wire.template, TextThreshold, delay))

\* TraditionalExtractor._measure_request_time and _test_condition
TraditionalSend ==
    /\ wire.pc = "traditional"
    /\ \E delay \in DelaySeconds :
         \E payload \in { Format(wire.template, << Txt("1=0") >>),
                          TradBuildPayload(wire.template, TextThreshold, delay) } :
            Send("traditional", StripQuery(wire.base_url), payload)

InitWire ==
    /\ NoSession
    /\ detector = NoDetector
    /\ analysis = NoAnalysis
    /\ \E url \in Urls, template \in { TextDefault, TextInline },
          given \in BOOLEAN, pc \in { "statsqli", "traditional" } :
          /\ pc = "traditional" => given
          /\ wire = [ NoWire EXCEPT !.pc = pc, !.base_url = url,
                                    !.template = template,
                                    !.delay_given = given ]

NextWire ==
    \/ DetectorBaselineSend
    \/ DetectorDelaySend
    \/ ExtractorBaselineSend
    \/ ExtractorOracleSend
    \/ TraditionalSend

SpecWire == InitWire /\ [][NextWire]_vars

(***************************************************************************)
(* The lab application (lab/app.py): the handler of /vulnerable.  A        *)
(* payload is a text whose tokens are fine enough for the handler's scan:  *)
(* blanks, OR, parentheses and " AND " are tokens of their own.            *)
(***************************************************************************)
Blank == Txt(" ")
Open == Txt("(")
Close == Txt(")")
LabTrue == << Txt("1=1") >>
LabFalse == << Txt("1=0") >>
\* ASCII(SUBSTRING((SELECT ...), 1, 1)) >= 64: ASCII is no function of SQLite
LabFailing == << Txt("ASCII(SUBSTRING((SELECT ...), 1, 1)) >= 64") >>

\* 1 OR (cond) AND SLEEP(2) -- -
LabInline(cond) ==
    << Txt("1"), Blank, Txt("OR"), Blank, Open >> \o cond
       \o << Close, Txt(" AND "), SleepCall("SLEEP", 200), Txt(" -- -") >>
\* ' OR ((cond) AND SLEEP(0.5)) -- -: the oracle's payload for the default
\* template
LabDefault(cond) ==
    << Txt("'"), Blank, Txt("OR"), Blank, Open, Open >> \o cond
       \o << Close, Txt(" AND "), SleepCall("SLEEP", 50), Close, Txt(" -- -") >>

LabPayloads ==
    { LabInline(LabTrue), LabInline(LabFalse), LabInline(LabFailing),
      LabInline(<< Open >> \o LabTrue \o << Close >>),
      LabDefault(LabTrue), LabDefault(LabFalse),
      \* 1 AND SLEEP(2) -- -
      << Txt("1"), Txt(" AND "), SleepCall("SLEEP", 200), Txt(" -- -") >>,
      \* 1 or (1=1) and sleep(2) -- -
      << Txt("1"), Blank, Txt("or"), Blank, Open, Txt("1=1"), Close,
         Txt(" and "), SleepCall("sleep", 200), Txt(" -- -") >>,
      \* 1 OR (1=1) AND SLEEP(0) -- -
      << Txt("1"), Blank, Txt("OR"), Blank, Open, Txt("1=1"), Close,
         Txt(" AND "), SleepCall("SLEEP", 0), Txt(" -- -") >>,
      \* 1 OR 1=1 AND SLEEP(2): no parenthesis after OR
      << Txt("1"), Blank, Txt("OR"), Blank, Txt("1=1"), Txt(" AND "),
         SleepCall("SLEEP", 200) >>,
      \* 1 OR (1=1) AND SLEEP(@d): no number in the call
      << Txt("1"), Blank, Txt("OR"), Blank, Open, Txt("1=1"), Close,
         Txt(" AND "), SleepOther("SLEEP(@d)") >>,
      \* queries without SLEEP: 1, 999, 1 OR 1=1, and a lone quote
      << Txt("1") >>, << Txt("999") >>,
      << Txt("1"), Blank, Txt("OR"), Blank, Txt("1=1") >>,
      << Txt("'") >> }

\* The smallest index of a set of indices, 0 for none (find() = -1, no match)
First(indices) ==
    IF indices = {} THEN 0
    ELSE CHOOSE k \in indices : \A j \in indices : k <= j

\* re.search(r'SLEEP\(([0-9.]+)\)', user_id.upper())
SleepMatch(id) == First({ k \in 1..Len(id) : id[k].kind = "sleep" })

\* user_id_upper.find('OR')
OrPos(id) == First({ k \in 1..Len(id) : id[k] \in { Txt("OR"), Txt("or") } })

\* The first '(' after OR with only blanks between.
OpenParen(id, or_pos) ==
    First({ k \in (or_pos + 1)..Len(id) :
              /\ id[k] = Open
              /\ \A j \in (or_pos + 1)..(k - 1) : id[j] = Blank })

\* user_id_upper.find(' AND SLEEP', open_paren)
AndSleepPos(id, open_paren) ==
    First({ k \in open_paren..(Len(id) - 1) :
              /\ id[k] \in { Txt(" AND "), Txt(" and ") }
              /\ id[k + 1].kind \in { "sleep", "sleep_other" } })

\* paren_count after the token at k, counted from the token after open_paren
ParenCount(id, open_paren, k) ==
    1 + Cardinality({ j \in (open_paren + 1)..k : id[j] = Open })
      - Cardinality({ j \in (open_paren + 1)..k : id[j] = Close })

\* The closing parenthesis that matches open_paren, before and_sleep_pos.
CloseParen(id, open_paren, and_sleep_pos) ==
    First({ k \in (open_paren + 1)..(and_sleep_pos - 1) :
              id[k] = Close /\ ParenCount(id, open_paren, k) = 0 })

\* The condition the handler extracts: << >> stands for no match, a
\* one-element tuple holds condition_sql.
Condition(id) ==
    LET or_pos == OrPos(id)
        open_paren == IF or_pos = 0 THEN 0 ELSE OpenParen(id, or_pos)
        and_sleep_pos == IF open_paren = 0 THEN 0
                         ELSE AndSleepPos(id, open_paren)
        close_paren == IF and_sleep_pos = 0 THEN 0
                       ELSE CloseParen(id, open_paren, and_sleep_pos)
    IN  IF close_paren = 0 THEN << >>
        ELSE << SubSeq(id, open_paren + 1, close_paren - 1) >>

\* SELECT CASE WHEN (condition_sql) THEN 1 ELSE 0 END in SQLite
RECURSIVE Evaluate(_)
Evaluate(condition_sql) ==
    IF condition_sql = LabTrue THEN "true"
    ELSE IF condition_sql = LabFalse THEN "false"
    ELSE IF /\ Len(condition_sql) >= 3
            /\ Head(condition_sql) = Open
            /\ CloseParen(condition_sql, 1, Len(condition_sql) + 1)
                  = Len(condition_sql)
      THEN Evaluate(SubSeq(condition_sql, 2, Len(condition_sql) - 1))
    ELSE "error"

\* cursor.execute(f"SELECT * FROM users WHERE id = {user_id}").fetchall():
\* the ids of the rows, or an error (SQLite has no SLEEP function).
Execute(id) ==
    IF id = << Txt("1") >> THEN [ error |-> FALSE, rows |-> << 1 >> ]
    ELSE IF id = << Txt("999") >> THEN [ error |-> FALSE, rows |-> << >> ]
    ELSE IF id = << Txt("1"), Blank, Txt("OR"), Blank, Txt("1=1") >>
      THEN [ error |-> FALSE, rows |-> << 1, 2, 3, 4, 5 >> ]
    ELSE [ error |-> TRUE, rows |-> << >> ]

\* What vulnerable() does with a request.
Handled(request) ==
    LET user_id == ArgsGet(request.query, "id", << Txt("1") >>)
        sleep_match == SleepMatch(user_id)
        delay_val == IF sleep_match = 0 THEN None ELSE user_id[sleep_match].arg
        condition == IF sleep_match = 0 THEN << >> ELSE Condition(user_id)
        outcome == IF condition = << >> THEN "none" ELSE Evaluate(condition[1])
        should_delay == /\ sleep_match # 0
                        /\ (condition # << >> => outcome = "true")
        slept == IF should_delay /\ delay_val # 0 THEN delay_val ELSE 0
        executed == Execute(user_id)
        rows == IF executed.error THEN << >> ELSE executed.rows
    IN  [ user_id |-> user_id, delay_val |-> delay_val,
          condition |-> condition, outcome |-> outcome, slept |-> slept,
          executed |-> executed,
          response |-> [ status |-> "ok", count |-> Len(rows),
                         time |-> slept ] ]

MaxLabRequests == 2

\* Requests reach the lab: from the test scripts, without any parameter, and
\* from the calibrator configured with ?id=1.
ClientSend ==
    /\ wire.pc = "lab"
    /\ Len(wire.sent) < MaxLabRequests
    /\ \E sending \in
            { << payload, Get(PlainUrl, payload) >> : payload \in LabPayloads }
            \cup { << << >>, [ path |-> PlainUrl.path, query |-> << >> ] >>,
                   << LabInline(LabTrue), Get(DemoUrl, LabInline(LabTrue)) >> } :
          wire' = [wire EXCEPT !.sent = Append(@,
                      [ by |-> "client", payload |-> sending[1],
                        request |-> sending[2] ])]
    /\ UNCHANGED << beside, analysis >>

\* vulnerable(): the next request is handled and answered.
Vulnerable ==
    /\ wire.pc = "lab"
    /\ Len(wire.served) < Len(wire.sent)
    /\ wire' = [wire EXCEPT !.served = Append(@,
                    Handled(wire.sent[Len(wire.served) + 1].request))]
    /\ UNCHANGED << beside, analysis >>

InitLab ==
    /\ NoSession
    /\ detector = NoDetector
    /\ analysis = NoAnalysis
    /\ wire = [ NoWire EXCEPT !.pc = "lab" ]

NextLab ==
    \/ ClientSend
    \/ Vulnerable

SpecLab == InitLab /\ [][NextLab]_vars

(***************************************************************************)
(* Vocabulary of the properties                                            *)
(***************************************************************************)
Returned(op) == op \in DOMAIN returned
Answers(t, op) == { k \in 1..Len(th[t].trace) : th[t].trace[k][1] = op }
AllFalse(t, op) == \A k \in Answers(t, op) : ~th[t].trace[k][3]
HasReturned(t) == th[t].pc = "ret"
InProgress == { t \in Threads : t # 0 /\ th[t].pc # "idle" }

(***************************************************************************)
(* C1.  Round trip: over the ideal network (every verdict is the truth of  *)
(* its predicate about the hidden string, false past its end), when the    *)
(* hidden string s is printable and max_length >= |s|, extract_string      *)
(* returns exactly s.                                                      *)
(***************************************************************************)
C1_RoundTrip ==
    ( /\ Returned("extract_string")
      /\ network = "ideal"
      /\ IsPrintable(hidden)
      /\ max_length >= Len(hidden) )
    => returned["extract_string"] = hidden

C1_Witness ==
    /\ Returned("extract_string")
    /\ network = "ideal"
    /\ hidden = << 97, 32 >>
    /\ max_length = Len(hidden) + 1
    /\ returned["extract_string"] = hidden

(***************************************************************************)
(* C2.  Parallel and sequential extraction agree: in a session over the    *)
(* ideal network and a printable hidden string, extract_string_chunks      *)
(* (any chunk size, any number of workers, any interleaving) returns the   *)
(* string extract_string returns for the same max_length.                  *)
(***************************************************************************)
C2_ParallelAgrees ==
    ( /\ Returned("extract_string")
      /\ Returned("extract_string_chunks")
      /\ network = "ideal"
      /\ IsPrintable(hidden) )
    => returned["extract_string_chunks"] = returned["extract_string"]

C2_Witness ==
    /\ Returned("extract_string")
    /\ Returned("extract_string_chunks")
    /\ hidden = << 126, 105, 33 >>
    /\ max_length = 2
    /\ chunk_size = 2
    /\ max_workers = 2
    /\ measured = 2
    /\ returned["extract_string_chunks"] = << 126, 105 >>

(***************************************************************************)
(* C3.  End of string.  As claimed: whenever every threshold predicate     *)
(* asked for the position answered false, extract_character returns None.  *)
(***************************************************************************)
C3_EndOfStringAsClaimed ==
    \A t \in Threads :
        (HasReturned(t) /\ AllFalse(t, ">=")) => th[t].ret = None

(***************************************************************************)
(* C3, amended.  Whenever every threshold predicate asked for the position *)
(* answered false and the equality predicate asked for it (codepoint = 32) *)
(* answered false too, extract_character returns None.                     *)
(***************************************************************************)
C3_EndOfString ==
    \A t \in Threads :
        (HasReturned(t) /\ AllFalse(t, ">=") /\ AllFalse(t, "=")) => th[t].ret = None

C3_Witness ==
    \E t \in Threads :
        /\ HasReturned(t)
        /\ network = "noisy"
        /\ AllFalse(t, ">=") /\ AllFalse(t, "=")
        /\ Answers(t, "=") # {}
        /\ Len(th[t].trace) = 7
        /\ th[t].trace[7][1] = "="
        /\ th[t].trace[7][2] = LowPrintable
        /\ th[t].trace[7][3] = FALSE
        /\ th[t].ret = None

(***************************************************************************)
(* C4.  Ambiguous character.  As claimed: extract_character returns None   *)
(* whenever the search ends with high < 32 or every equality probe of the  *)
(* candidate set answered false.                                           *)
(***************************************************************************)
C4_AmbiguousAsClaimed ==
    \A t \in Threads :
        (HasReturned(t) /\ (th[t].high < LowPrintable \/ AllFalse(t, "=")))
        => th[t].ret = None

(***************************************************************************)
(* C4, amended.  extract_character returns None exactly when the search    *)
(* ends with high < 32 and every equality probe answered false; when the   *)
(* search ends with 32 <= high <= 126 and every equality probe answered    *)
(* false it returns chr(high).                                             *)
(***************************************************************************)
C4_Ambiguous ==
    \A t \in Threads :
        HasReturned(t) =>
            /\ (th[t].ret = None) <=> (th[t].high < LowPrintable /\ AllFalse(t, "="))
            /\ (th[t].high >= LowPrintable /\ AllFalse(t, "=")) => th[t].ret = th[t].high

C4_Witness ==
    \E t \in Threads :
        /\ HasReturned(t)
        /\ network = "noisy"
        /\ th[t].high = 64
        /\ Cardinality(Answers(t, "=")) = 3
        /\ AllFalse(t, "=")
        /\ th[t].ret = 64

(***************************************************************************)
(* C5.  Cost per character.  As claimed: an extract_character call makes   *)
(* at most 7 threshold oracle calls followed by at most 3 equality oracle  *)
(* calls, and a call that returns a character has issued at most 70 HTTP   *)
(* requests.                                                               *)
(***************************************************************************)
OracleCallsBounded(t) ==
    /\ Cardinality(Answers(t, ">=")) <= 7
    /\ Cardinality(Answers(t, "=")) <= 3
    /\ \A j \in Answers(t, ">=") : \A k \in Answers(t, "=") : j < k

C5_CostAsClaimed ==
    \A t \in Threads :
        /\ OracleCallsBounded(t)
        /\ (HasReturned(t) /\ th[t].ret # None) => th[t].call_probes <= 70

(***************************************************************************)
(* C5, amended.  An extract_character call makes at most 7 threshold       *)
(* oracle calls followed by at most 3 equality oracle calls; it issues at  *)
(* most 70 HTTP requests when it finds the baseline cached, and at most    *)
(* 70 + 15 = 85 when it measures the baseline itself (the 15 baseline      *)
(* requests are issued inside its first oracle call).                      *)
(***************************************************************************)
C5_Cost ==
    \A t \in Threads :
        /\ OracleCallsBounded(t)
        /\ th[t].base_probes \in {0} \cup (1..BaselineSamples)
        /\ th[t].call_probes - th[t].base_probes <= 70
        /\ th[t].call_probes <= 85

C5_Witness ==
    \E t \in Threads :
        /\ HasReturned(t)
        /\ th[t].ret # None
        /\ Cardinality(Answers(t, ">=")) = 7
        /\ Cardinality(Answers(t, "=")) = 3
        /\ th[t].base_probes = BaselineSamples
        /\ th[t].call_probes = 85

(***************************************************************************)
(* C6.  Every character returned by extract_character has a codepoint in   *)
(* [32, 126]; the strings returned by extract_string and                   *)
(* extract_string_chunks contain only such characters (so no \0, \n, \r)   *)
(* and are at most max_length long.                                        *)
(***************************************************************************)
C6_PrintableOnly ==
    /\ \A t \in Threads :
         HasReturned(t) =>
            th[t].ret = None \/ th[t].ret \in LowPrintable..HighPrintable
    /\ \A op \in DOMAIN returned \cap {"extract_string", "extract_string_chunks"} :
         /\ Len(returned[op]) <= max_length
         /\ \A k \in 1..Len(returned[op]) :
              /\ returned[op][k] \in LowPrintable..HighPrintable
              /\ returned[op][k] \notin Terminators

C6_Witness ==
    /\ Returned("extract_string_chunks")
    /\ hidden = << 233, 10 >>
    /\ max_length = 3
    /\ returned["extract_string_chunks"] = << 126 >>

(***************************************************************************)
(* C7.  The baseline is measured exactly once in a session (15 requests),  *)
(* the cached baseline never differs from the one stored first, and no     *)
(* oracle call decides with another baseline, also when pool workers       *)
(* share the extractor.                                                    *)
(***************************************************************************)
C7_BaselineOnce ==
    /\ measured <= 1
    /\ baseline_cache = first_baseline
    /\ \A t \in Threads :
         th[t].baseline # NoBaseline => th[t].baseline = first_baseline

(***************************************************************************)
(* C8.  One oracle call, whatever requests fail: every _test_condition     *)
(* that has decided issued exactly 7 requests for its test sample and      *)
(* recorded exactly 7 timings, failed requests included (15 and 15 for the *)
(* baseline); no exception leaves the call, and every answer is a boolean. *)
(***************************************************************************)
C8_SevenSamples ==
    \A t \in Threads :
        /\ th[t].pc # "raised"
        /\ \A k \in 1..Len(th[t].trace) :
              /\ th[t].trace[k][3] \in BOOLEAN
              /\ th[t].trace[k][4] = TestSamples
              /\ th[t].trace[k][5] = TestSamples
        /\ th[t].pc = "store" =>
              /\ th[t].issued = BaselineSamples
              /\ th[t].timings = BaselineSamples
        /\ th[t].pc # "store" =>
              th[t].call_probes - th[t].base_probes = TestSamples * Len(th[t].trace)

C8_Witness ==
    \E t \in Threads :
        /\ network = "noisy"
        /\ HasReturned(t)
        /\ Len(th[t].trace) = 9
        /\ th[t].failed = 3
        /\ th[t].issued = TestSamples
        /\ th[t].timings = TestSamples
        /\ th[t].trace[9][5] = TestSamples

(***************************************************************************)
(* C9.  extract_characters_parallel: never more than max_workers           *)
(* extractions are in progress; no position is started twice; when the     *)
(* call returns, every task has finished (no worker busy, nothing queued   *)
(* or unread), each listed position was extracted exactly once, and the    *)
(* map has exactly the listed positions as keys, each with the value its   *)
(* own extraction returned.                                                *)
(***************************************************************************)
C9_ParallelMap ==
    /\ Cardinality(InProgress) <= max_workers
    /\ \A p \in DOMAIN started : started[p] <= 1
    /\ mpc = "joined" =>
         /\ InProgress = {} /\ queue = << >> /\ finished = {}
         /\ DOMAIN results = Range(positions)
         /\ \A p \in DOMAIN results :
              /\ started[p] = 1
              /\ p \in DOMAIN extracted
              /\ results[p] = extracted[p]

C9_Witness ==
    /\ mpc = "joined"
    /\ Len(positions) = 2
    /\ max_workers = 1
    /\ DOMAIN results = {1, 2}
    /\ results[1] = 126 /\ results[2] = 105

(***************************************************************************)
(* C10.  The string returned by extract_string_chunks is the sequence of   *)
(* the characters extracted for positions 1..p-1, in position order, where *)
(* p is the least position whose extraction returned None (one past the    *)
(* last extracted position when none did); values extracted for positions  *)
(* beyond p do not appear.                                                 *)
(***************************************************************************)
FirstNone(rc) ==
    LET nones == { p \in DOMAIN rc : rc[p] = None }
    IN  IF nones = {} THEN Cardinality(DOMAIN rc) + 1
        ELSE CHOOSE p \in nones : \A q \in nones : p <= q

C10_Truncation ==
    Returned("extract_string_chunks") =>
        /\ DOMAIN result_chars = 1..Cardinality(DOMAIN result_chars)
        /\ \A p \in DOMAIN result_chars : result_chars[p] = extracted[p]
        /\ returned["extract_string_chunks"] =
              [p \in 1..(FirstNone(result_chars) - 1) |-> extracted[p]]

C10_Witness ==
    /\ Returned("extract_string_chunks")
    /\ DOMAIN result_chars = {1, 2}
    /\ result_chars[1] = None
    /\ result_chars[2] = 98
    /\ returned["extract_string_chunks"] = << >>

(***************************************************************************)
(* C11.  extract_string_chunks works through the windows [1..c],           *)
(* [c+1..2c], ... in ascending order and one at a time: while a window is  *)
(* being extracted it starts at 1 + k*c, it is clamped to max_length, all  *)
(* positions before it have their results and none of them is None (a None *)
(* in a window stops the loop), every running, queued or unread task       *)
(* belongs to the window, no task exists when its first position is        *)
(* submitted, and no position is started twice.                            *)
(***************************************************************************)
ChunkBusy == mpc \in {"submit", "collect", "joined"}
InChunks == mpc \in {"ch_loop", "submit", "collect", "joined", "rebuild"}

C11_Windows ==
    /\ InChunks =>
         /\ (position - 1) % chunk_size = 0
         /\ DOMAIN result_chars \subseteq 1..max_length
         /\ DOMAIN extracted \subseteq 1..max_length
    /\ ChunkBusy =>
         /\ position \in 1..max_length
         /\ positions = RangeList(position,
                                  Min(position + chunk_size - 1, max_length))
         /\ DOMAIN result_chars = 1..(position - 1)
         /\ None \notin Range(result_chars)
         /\ \A p \in Range(positions) : started[p] <= 1
         /\ \A t \in InProgress : th[t].position \in Range(positions)
         /\ Range(queue) \subseteq Range(positions)
         /\ \A f \in finished : f[1] \in Range(positions)
         /\ (mpc = "submit" /\ submitted = 0) =>
               (InProgress = {} /\ queue = << >> /\ finished = {})
    /\ ~ChunkBusy => (InProgress = {} /\ queue = << >> /\ finished = {})

C11_Witness ==
    /\ mpc = "collect"
    /\ chunk_size = 2
    /\ max_length = 3
    /\ max_workers = 2
    /\ positions = << 3 >>
    /\ DOMAIN result_chars = {1, 2}
    /\ InProgress # {}

(***************************************************************************)
(* C12.  extract_string examines positions 1, 2, ... one at a time: the    *)
(* position under extraction is one past the characters collected so far   *)
(* and at most max_length; once the call has returned, the last position   *)
(* the main thread extracted is at most max_length and, when its           *)
(* extraction returned None, exactly one past the characters collected     *)
(* (nothing was extracted after the first None); with max_length = 0 the   *)
(* main thread makes no oracle call and the result is empty.               *)
(***************************************************************************)
C12_Sequential ==
    /\ mpc = "es_char" =>
         /\ th[0].position = position
         /\ position = Len(result) + 1
         /\ position \in 1..max_length
         /\ \A k \in 1..Len(result) : result[k] # None
    /\ mpc = "es_loop" =>
         /\ position = Len(result)
         /\ position <= max_length
         /\ position > 0 => (th[0].position = position /\ th[0].ret = result[position])
    /\ Returned("extract_string") =>
         /\ th[0].position <= max_length
         /\ Len(result) \in {th[0].position - 1, th[0].position}
         /\ (th[0].position > 0 /\ th[0].ret = None) =>
               Len(result) = th[0].position - 1
         /\ max_length = 0 =>
               (th[0] = Idle /\ returned["extract_string"] = << >>)

C12_Witness ==
    /\ Returned("extract_string")
    /\ hidden = << 97, 32 >>
    /\ max_length = 3
    /\ th[0].position = 3
    /\ th[0].ret = None
    /\ Len(th[0].trace) = 7
    /\ result = << 97, 32 >>

(***************************************************************************)
(* Vocabulary of the calibrator's properties: the statistics in the        *)
(* claims' terms.  The baselines of Profiles have an integral mean and an  *)
(* integral sample standard deviation, so Mean and Stdev are exact.        *)
(***************************************************************************)
Mean(xs) == Sum(xs) \div Len(xs)

\* The integer square root of x, sought in lo..hi by bisection.
RECURSIVE IsqrtIn(_, _, _)
IsqrtIn(x, lo, hi) ==
    IF lo >= hi THEN lo
    ELSE LET m == (lo + hi + 1) \div 2
         IN  IF m * m <= x THEN IsqrtIn(x, m, hi) ELSE IsqrtIn(x, lo, m - 1)

Stdev(xs) ==
    LET m == Mean(xs)
        dev == [k \in 1..Len(xs) |-> (xs[k] - m) * (xs[k] - m)]
    IN  IsqrtIn(Sum(dev) \div (Len(xs) - 1), 0, 1000)

\* mean(test) > 1.5 * (mu0 + 3 * sigma0)
ExceedsThreshold(test, b) ==
    2 * Sum(test) > 3 * Len(test) * (Mean(b) + 3 * Stdev(b))

\* {min, min + step, ..., max}
Candidates(min, max, step) ==
    { d \in min..max : step > 0 /\ (d - min) % step = 0 }

TestedDelays == { detector.tested[k][1] : k \in 1..Len(detector.tested) }
DetectorDone == detector.pc = "done"

C14_TerminatesAndFlags ==
    /\ detector.pc \in {"loop", "done"} =>
         detector.probes = BaselineProbes + DelayProbes * Len(detector.tested)
    /\ \A j, k \in 1..Len(detector.tested) :
         j < k => detector.tested[j][1] # detector.tested[k][1]
    /\ TestedDelays \subseteq detector.min_delay..detector.max_delay
    /\ (DetectorDone /\ detector.test_delays = {}) =>
         /\ detector.optimal = detector.initial_delay
         /\ detector.optimal \notin TestedDelays

(***************************************************************************)
(* Vocabulary of the command line's properties                             *)
(***************************************************************************)
Exited == cli.pc = "exited"
Workers == Threads \ {0}
MalformedTemplate == cli.payload_given /\ ~cli.payload.condition

(***************************************************************************)
(* C15.  Cancellation returns the partial result: when the run was         *)
(* interrupted after extract_string had collected k >= 1 characters, the   *)
(* process has printed a result and it is those k characters; when it was  *)
(* interrupted after the parallel extraction had collected the characters  *)
(* of some positions, it has printed a result.                             *)
(***************************************************************************)
C15_PartialResult ==
    (Exited /\ cli.interrupted) =>
        /\ (~parallel /\ Len(result) > 0) =>
              (cli.printed /\ cli.output = result)
        /\ (parallel /\ DOMAIN results # {}) => cli.printed

(***************************************************************************)
(* C16.  After a user interrupt during the parallel extraction no task is  *)
(* started: every worker that is busy is still on the position it was      *)
(* extracting when the interrupt was raised, and it has completed at most  *)
(* the oracle call that was in flight then.                                *)
(***************************************************************************)
C16_NoNewTasks ==
    cli.interrupted =>
        \A t \in Workers :
            th[t].pc # "idle" =>
                /\ th[t].position = cli.at_interrupt[t][1]
                /\ Len(th[t].trace) <= cli.at_interrupt[t][2] + 1

(***************************************************************************)
(* C17.  An exception raised by a worker's extract_character does not      *)
(* leave extract_characters_parallel: only the user's interrupt makes the  *)
(* main thread leave the executor's block by an exception, and the map     *)
(* the call returns has every listed position, with None for a position    *)
(* whose extraction raised and the extracted character for the others.     *)
(***************************************************************************)
C17_WorkerException ==
    /\ mpc = "shutdown" => cli.interrupted
    /\ mpc = "joined" =>
         \A p \in Range(positions) :
            /\ p \in DOMAIN results
            /\ p \in DOMAIN extracted
            /\ results[p] = IF extracted[p] = Raised THEN None ELSE extracted[p]

(***************************************************************************)
(* C18.  A payload template without the {condition} placeholder is         *)
(* rejected before any probe: in a run with such a template neither the    *)
(* calibrator nor the extractor issues a request, no result is printed,    *)
(* and the process does not exit with status 0.                            *)
(***************************************************************************)
C18_MalformedRejected ==
    MalformedTemplate =>
        /\ detector.probes = 0
        /\ probes = 0
        /\ ~cli.printed
        /\ Exited => cli.exit_code # 0

(***************************************************************************)
(* C19.  Exit codes: the process exits with 0 after a successful           *)
(* extraction, with 1 when the user interrupted it, and with 2 when any    *)
(* other exception ended it.                                               *)
(***************************************************************************)
C19_ExitCodes ==
    Exited =>
        cli.exit_code = IF cli.interrupted THEN 1
                        ELSE IF ExceptionInFlight THEN 2
                        ELSE 0

(***************************************************************************)
(* C20.  The query counter: total_queries is the number of HTTP requests   *)
(* issued since the extraction began (every oracle call adds the requests  *)
(* it issued), and it agrees with the trace: one step per count, the k-th  *)
(* step recording the count k.                                             *)
(***************************************************************************)
C20_QueryCounter ==
    trad.pc \in {"char", "done"} =>
        /\ trad.total_queries = trad.probes
        /\ Len(trad.steps) = trad.total_queries
        /\ \A k \in 1..Len(trad.steps) : trad.steps[k][4] = k

(***************************************************************************)
(* Vocabulary of the comparison's properties                               *)
(***************************************************************************)
TradDone == trad.pc = "done"
BothDone == TradDone /\ Returned("extract_string")

\* The steps the linear search recorded for a position.
StepsAt(p) == { k \in 1..Len(trad.steps) : trad.steps[k][1] = p }

\* Oracle calls of the binary-search session: every call issues 7 requests,
\* and the baseline is measured with 15 more.
OracleCalls == (probes - BaselineSamples * measured) \div TestSamples

(***************************************************************************)
(* C21.  Same inputs, same outputs: over the truthful oracle and a         *)
(* printable hidden string, TraditionalExtractor.extract_string returns    *)
(* the string BinarySearchExtractor.extract_string returns, for every      *)
(* max_length; and for each position the linear search asks the equality   *)
(* predicates for 32, 33, ... in order, stops at the first that tests true *)
(* and returns that codepoint, or returns None after 126 tested false.     *)
(***************************************************************************)
C21_SameOutputs ==
    /\ (BothDone /\ IsPrintable(hidden)) =>
          trad.ret = returned["extract_string"]
    /\ \A k \in 1..Len(trad.steps) :
          LET p == trad.steps[k][1]
              first == CHOOSE j \in StepsAt(p) : \A i \in StepsAt(p) : j <= i
          IN  /\ trad.steps[k][2] = LowPrintable + (k - first)
              /\ trad.steps[k][2] <= HighPrintable
              /\ trad.steps[k][3] = Truth(hidden, p, << "=", trad.steps[k][2] >>)
              /\ \A j \in StepsAt(p) : j < k => ~trad.steps[j][3]
              /\ trad.steps[k][3] =>
                    (Len(trad.result) >= p /\ trad.result[p] = trad.steps[k][2])
    /\ TradDone =>
          \A p \in 1..max_length :
             /\ p <= Len(trad.result) + 1 <=> StepsAt(p) # {}
             /\ p = Len(trad.result) + 1 =>
                   Cardinality(StepsAt(p)) = HighPrintable - LowPrintable + 1

C21_Witness ==
    /\ BothDone
    /\ hidden = << 126, 105, 33 >>
    /\ max_length = 3
    /\ trad.ret = << 126, 105, 33 >>
    /\ returned["extract_string"] = << 126, 105, 33 >>
    /\ Len(trad.steps) = 95 + 74 + 2

Examined == IF max_length > Len(hidden) THEN Len(hidden) + 1 ELSE max_length

UsesAnalyzer == analysis.callee \in {"is_significant_delay", "_test_condition"}

(***************************************************************************)
(* C23.  is_significant_delay returns (False, 1.0) whenever the baseline   *)
(* sample or the test sample has fewer than min_samples = 5 observations,  *)
(* whatever Welch's test would say of the values; so _test_condition       *)
(* called with samples < 5 returns False, whichever requests fail.         *)
(***************************************************************************)
C23_TooFewSamples ==
    (analysis.pc = "ret" /\ UsesAnalyzer) =>
        /\ (analysis.baseline_n < 5 \/ analysis.test_n < 5) =>
              (analysis.decision = FALSE /\ analysis.p_value = Certain)
        /\ (analysis.callee = "_test_condition" /\ analysis.samples < 5) =>
              analysis.decision = FALSE

C23_Witness ==
    /\ analysis.pc = "ret"
    /\ analysis.callee = "_test_condition"
    /\ analysis.samples = 4
    /\ analysis.test_n = 4
    /\ analysis.failed = 1
    /\ analysis.welch_p = 0
    /\ analysis.decision = FALSE
    /\ analysis.p_value = Certain

(***************************************************************************)
(* Vocabulary of the search's properties                                   *)
(***************************************************************************)
Active(t) == th[t].pc # "idle"
Searching(t) == Active(t) /\ th[t].phase = "search"
SearchOver(t) == Active(t) /\ th[t].phase = "verify"

\* The thresholds tested so far that answered true.
TestedTrue(t) ==
    { th[t].trace[k][2] : k \in { j \in Answers(t, ">=") : th[t].trace[j][3] } }

Greatest(S) == CHOOSE x \in S : \A y \in S : y <= x

(***************************************************************************)
(* C24.  The loop of the binary search, whatever the oracle answers: at    *)
(* every iteration 32 <= low <= high + 1 <= 127 and mid = (low + high)/2   *)
(* lies in [low, high]; every tested threshold lies outside [low, high],   *)
(* those below low answered true and those above high answered false; on   *)
(* exit low = high + 1 and high is the greatest tested threshold that      *)
(* answered true (31 if none did).  With a truthful oracle and a codepoint *)
(* c in [32, 126] at the position, high = c on exit.                       *)
(***************************************************************************)
C24_LoopInvariant ==
    \A t \in Threads :
        Active(t) =>
            /\ 32 <= th[t].low
            /\ th[t].low <= th[t].high + 1
            /\ th[t].high + 1 <= 127
            /\ Searching(t) =>
                  /\ th[t].low <= th[t].high
                  /\ th[t].pred[1] = ">="
                  /\ th[t].pred[2] = (th[t].low + th[t].high) \div 2
                  /\ th[t].pred[2] \in th[t].low..th[t].high
            /\ \A k \in Answers(t, ">=") :
                  /\ th[t].trace[k][2] \notin th[t].low..th[t].high
                  /\ th[t].trace[k][2] < th[t].low => th[t].trace[k][3]
                  /\ th[t].trace[k][2] > th[t].high => ~th[t].trace[k][3]
            /\ SearchOver(t) =>
                  /\ th[t].low = th[t].high + 1
                  /\ th[t].high = Greatest(TestedTrue(t) \cup {31})
                  /\ ( /\ network = "ideal"
                       /\ th[t].position <= Len(hidden)
                       /\ hidden[th[t].position] \in 32..126 ) =>
                         th[t].high = hidden[th[t].position]

C24_Witness ==
    /\ HasReturned(0)
    /\ network = "noisy"
    /\ th[0].low = 80
    /\ th[0].high = 79
    /\ TestedTrue(0) = { 79 }
    /\ Cardinality(Answers(0, ">=")) = 6

(***************************************************************************)
(* C25.  Candidate verification: after the search the equality predicates  *)
(* tested are, in this order, the values of {high+1, high, high-1} that    *)
(* lie in [32, 126], greatest first; testing stops at the first that       *)
(* answers true, which is returned; when all of them answered false the    *)
(* call returns chr(high) if 32 <= high <= 126 and None otherwise.         *)
(***************************************************************************)
\* The equality predicates tested so far, in order: <<value, answer>>.
EqualityTests(t) ==
    LET first == Cardinality(Answers(t, ">="))
    IN  [k \in 1..(Len(th[t].trace) - first) |->
            << th[t].trace[first + k][2], th[t].trace[first + k][3] >>]

C25_Verification ==
    \A t \in Threads :
        LET high == th[t].high
            expected == SortedDesc({high + 1, high, high - 1} \cap (32..126))
            tests == EqualityTests(t)
            n == Len(tests)
        IN  /\ Searching(t) => Answers(t, "=") = {}
            /\ SearchOver(t) =>
                  /\ \A k \in 1..Len(th[t].trace) :
                        th[t].trace[k][1] = "=" <=> k > Len(th[t].trace) - n
                  /\ n <= Len(expected)
                  /\ \A k \in 1..n : tests[k][1] = expected[k]
                  /\ \A k \in 1..(n - 1) : ~tests[k][2]
                  /\ th[t].pc = "test" =>
                        /\ \A k \in 1..n : ~tests[k][2]
                        /\ n < Len(expected)
                        /\ th[t].pred = << "=", expected[n + 1] >>
                  /\ HasReturned(t) =>
                        IF n > 0 /\ tests[n][2]
                          THEN th[t].ret = tests[n][1]
                          ELSE /\ n = Len(expected)
                               /\ th[t].ret = IF 32 <= high /\ high <= 126
                                                THEN high ELSE None

C25_Witness ==
    /\ HasReturned(0)
    /\ network = "noisy"
    /\ th[0].high = 126
    /\ EqualityTests(0) = << << 126, FALSE >>, << 125, TRUE >> >>
    /\ th[0].ret = 125

(***************************************************************************)
(* C26.  Candidate verification catches a mistaken decision: when exactly  *)
(* one threshold decision of the search for a position was wrong (a true   *)
(* predicate reported false) and every other decision, threshold or        *)
(* equality, was right, extract_character returns the character the        *)
(* position holds.                                                         *)
(***************************************************************************)
\* The oracle calls of the activation that answered against the truth.
WrongAnswers(t) ==
    { k \in 1..Len(th[t].trace) :
        th[t].trace[k][3] # Truth(hidden, th[t].position,
                                  << th[t].trace[k][1], th[t].trace[k][2] >>) }

C26_OneMistakeCaught ==
    \A t \in Threads :
        ( /\ HasReturned(t)
          /\ th[t].position <= Len(hidden)
          /\ hidden[th[t].position] \in 32..126
          /\ Cardinality(WrongAnswers(t)) = 1
          /\ \A k \in WrongAnswers(t) :
                th[t].trace[k][1] = ">=" /\ ~th[t].trace[k][3] )
        => th[t].ret = hidden[th[t].position]

(***************************************************************************)
(* Vocabulary of the payload's properties                                  *)
(***************************************************************************)
PayloadBuilt ==
    /\ analysis.pc \in {"test", "ret"}
    /\ analysis.callee \in {"_test_condition", "traditional._test_condition"}

\* The text holds a call SLEEP( ... ), in any spelling.
HasSleepCall(text) ==
    \E k \in 1..Len(text) : text[k].kind \in {"sleep", "sleep_other"}

\* The text with the argument of each of its SLEEP calls rewritten to d.
Rewritten(text, d) ==
    [k \in 1..Len(text) |->
        IF text[k].kind \in {"sleep", "sleep_other"}
          THEN SleepCall("SLEEP", d) ELSE text[k]]

\* The delays the text invokes, in order (None for an argument that is not
\* a number).
RECURSIVE DelaysFrom(_, _)
DelaysFrom(text, k) ==
    IF k > Len(text) THEN << >>
    ELSE (IF text[k].kind = "sleep" THEN << text[k].arg >>
          ELSE IF text[k].kind = "sleep_other" THEN << None >>
          ELSE << >>) \o DelaysFrom(text, k + 1)
Delays(text) == DelaysFrom(text, 1)

(***************************************************************************)
(* C27.  The payload of an oracle call is built by exactly one of three    *)
(* rules: (1) when the template holds SLEEP( its argument is rewritten to  *)
(* D and the predicate is substituted verbatim; (2) otherwise, when the    *)
(* predicate holds no SLEEP(, `(predicate) AND SLEEP(D)` is substituted;   *)
(* (3) otherwise the predicate is substituted verbatim.  In cases 1 and 2  *)
(* the payload invokes the delay exactly once, with D.                     *)
(***************************************************************************)
C27_PayloadRules ==
    PayloadBuilt =>
        LET template == analysis.template
            predicate == analysis.condition
            D == analysis.delay_seconds
            rule == IF HasSleepCall(template) THEN 1
                    ELSE IF ~HasSleepCall(predicate) THEN 2 ELSE 3
        IN  /\ analysis.payload =
                  IF rule = 1 THEN Format(Rewritten(template, D), predicate)
                  ELSE IF rule = 2
                    THEN Format(template,
                                << Txt("(") >> \o predicate
                                \o << Txt(") AND "), SleepCall("SLEEP", D) >>)
                  ELSE Format(template, predicate)
            /\ rule \in {1, 2} => Delays(analysis.payload) = << D >>

(***************************************************************************)
(* C28.  For every candidate delay d the calibrator tests, the payload of  *)
(* its 5 probes invokes the delay as SLEEP(d), once, with the predicate    *)
(* 1=1 in the place of {condition}; for a template with SLEEP written      *)
(* inline and for one without (the default template) alike.                *)
(***************************************************************************)
C28_CalibratorPayload ==
    detector.template \in { DefaultTemplate, InlineSleep } =>
        \A k \in 1..Len(detector.tested) :
            LET d == detector.tested[k][1]
                payload == detector.tested[k][3]
            IN  /\ Len(detector.tested[k][2]) = DelayProbes
                /\ Delays(payload) = << d >>
                /\ \E j \in 1..Len(payload) : payload[j] = Txt("1=1")

(***************************************************************************)
(* C29.  Every request sent (baseline, oracle and calibrator probes alike) *)
(* goes to the configured URL without its query and carries exactly one    *)
(* parameter, `id`, whose value is the payload; also when the configured   *)
(* URL holds a query such as ?id=1.                                        *)
(***************************************************************************)
C29_OneIdParameter ==
    \A k \in 1..Len(wire.sent) :
        /\ wire.sent[k].request.path = wire.base_url.path
        /\ wire.sent[k].request.query = << << "id", wire.sent[k].payload >> >>

(***************************************************************************)
(* C30.  /vulnerable sleeps for n seconds exactly when the id parameter    *)
(* contains SLEEP(n) and either the condition of `... OR (cond) AND        *)
(* SLEEP(n)` was extracted and evaluates true, or no such condition could  *)
(* be extracted; it does not sleep when cond is false or fails to          *)
(* evaluate.  Every answer has status 'ok' and reveals nothing of the      *)
(* query's results or errors: apart from the time, the answers to any two  *)
(* requests are the same.                                                  *)
(***************************************************************************)
C30_LabEndpoint ==
    \A k \in 1..Len(wire.served) :
        LET e == wire.served[k]
        IN  /\ e.slept = IF /\ e.delay_val # None
                            /\ \/ e.outcome = "true"
                               \/ e.condition = << >>
                           THEN e.delay_val ELSE 0
            /\ e.outcome \in { "false", "error" } => e.slept = 0
            /\ e.response.status = "ok"
            /\ \A j \in 1..Len(wire.served) :
                  wire.served[j].response.count = e.response.count

====
